---------------------------- MODULE Spec2Model ----------------------------
(***************************************************************************)
(* Model of the EQ (Error Quotient) classification service:                *)
(*   app/services/eq_service.py          sessions, EQ score, per-user run  *)
(*   app/services/prediction_service.py  the K=3 model, predict, retrain   *)
(*   app/services/supabase_service.py    the record store                  *)
(*   app/main.py                         /classify and the scheduler       *)
(*                                                                         *)
(* Times are integers (minutes).  Scores are exact rationals [n, d].       *)
(***************************************************************************)
EXTENDS Integers, Sequences, FiniteSets, TLC

None == "None"       \* a null column / Python None, where the other values are strings

(***************************************************************************)
(* Bounds of the model.                                                    *)
(***************************************************************************)
MaxEvents == 3

(***************************************************************************)
(* Exact rationals, for the floats of the code.                            *)
(***************************************************************************)
Abs(x) == IF x < 0 THEN -x ELSE x

RECURSIVE Gcd(_, _)
Gcd(a, b) == IF b = 0 THEN a ELSE Gcd(b, a % b)

Rat(n, d) ==
    LET g == Gcd(Abs(n), d)
    IN  IF n = 0 THEN [n |-> 0, d |-> 1] ELSE [n |-> n \div g, d |-> d \div g]

RatAdd(p, q) == Rat(p.n * q.d + q.n * p.d, p.d * q.d)
RatDivInt(p, k) == Rat(p.n, p.d * k)
RatLess(p, q) == p.n * q.d < q.n * p.d
RatLeq(p, q) == p.n * q.d <= q.n * p.d
RatZero == Rat(0, 1)
RatOne == Rat(1, 1)

RECURSIVE RatSum(_)
RatSum(s) == IF s = <<>> THEN RatZero ELSE RatAdd(Head(s), RatSum(Tail(s)))

\* a faulty variant: the sum is not divided by the number of values
MeanUnnormalised(s) == RatSum(s)

\* np.mean of a non-empty list
Mean(s) == RatDivInt(RatSum(s), Len(s))

(***************************************************************************)
(* eq_service.py: timestamps.  A created_at value is None or a string,     *)
(* modelled by its shape: [form, t] where t is the wall-clock minute the   *)
(* string shows and form is how it is written:                             *)
(*   "Z"       ...T hh:mm:ssZ          trailing Z                          *)
(*   "naive"   ...T hh:mm:ss           no offset                           *)
(*   "utc"     ...T hh:mm:ss+00:00                                         *)
(*   "plus1h"  ...T hh:mm:ss+01:00     one hour east of UTC                *)
(*   "garbled" not an ISO timestamp                                        *)
(*   "empty"   the empty string                                            *)
(*   "null"    None (a null column)                                        *)
(* A parsed time is <<instant>>, or <<>> for None.                         *)
(***************************************************************************)
TS(form, t) == [form |-> form, t |-> t]

\* datetime.fromisoformat of the normalised string: the UTC instant, or a
\* ValueError (None).
fromisoformat(form, t) ==
    CASE form = "utc" -> <<t>>
      [] form = "plus1h" -> <<t - 60>>
      [] OTHER -> <<>>

parse_flexible_isoformat(ts_str) ==
    IF ts_str.form = "null" \/ ts_str.form = "empty"     \* if not ts_str
    THEN <<>>
    ELSE LET form == CASE ts_str.form = "Z" -> "utc"          \* [:-1] + '+00:00'
                       [] ts_str.form = "naive" -> "utc"      \* += '+00:00'
                       [] OTHER -> ts_str.form
         IN  fromisoformat(form, ts_str.t)

(***************************************************************************)
(* eq_service.py: identify_sessions                                        *)
(***************************************************************************)
max_gap_minutes == 30

\* event['parsed_time'] = event_time; parsed_events.append(event)
RECURSIVE ParseEvents(_)
ParseEvents(user_events) ==
    IF user_events = <<>>
    THEN <<>>
    ELSE LET event == Head(user_events)
             event_time == parse_flexible_isoformat(event.created_at)
             rest == ParseEvents(Tail(user_events))
         IN  IF event_time # <<>>
             THEN <<[id |-> event.id, created_at |-> event.created_at,
                     error_snapshot |-> event.error_snapshot,
                     parsed_time |-> event_time[1]]>> \o rest
             ELSE rest

\* list.sort(key=parsed_time): stable, ascending.
RECURSIVE InsertSorted(_, _)
InsertSorted(sorted, e) ==
    IF sorted = <<>>
    THEN <<e>>
    ELSE LET last == sorted[Len(sorted)]
         IN  IF last.parsed_time <= e.parsed_time
             THEN Append(sorted, e)
             ELSE Append(InsertSorted(SubSeq(sorted, 1, Len(sorted) - 1), e), last)

\* a faulty variant: the events are left in the order of the input
SortByTimeAsGiven(events) == events

RECURSIVE SortByTime(_)
SortByTime(events) ==
    IF events = <<>>
    THEN <<>>
    ELSE InsertSorted(SortByTime(SubSeq(events, 1, Len(events) - 1)),
                      events[Len(events)])

\* a faulty variant: a gap of exactly max_gap splits too
GapExceedsGE(event_time, last_event_time, max_gap) ==
    (event_time - last_event_time) >= max_gap

\* (event_time - last_event_time) > timedelta(minutes=max_gap_minutes)
GapExceeds(event_time, last_event_time, max_gap) ==
    (event_time - last_event_time) > max_gap

\* the loop over parsed_events[1:], then "simpan sesi terakhir"
RECURSIVE WalkSessions(_, _, _, _, _, _)
WalkSessions(parsed_events, i, sessions, current_session, last_event_time, max_gap) ==
    IF i > Len(parsed_events)
    THEN IF current_session # <<>> THEN Append(sessions, current_session) ELSE sessions
    ELSE LET event == parsed_events[i]
             event_time == event.parsed_time
         IN  IF GapExceeds(event_time, last_event_time, max_gap)
             THEN WalkSessions(parsed_events, i + 1,
                               IF current_session # <<>>
                               THEN Append(sessions, current_session) ELSE sessions,
                               <<event>>, event_time, max_gap)
             ELSE WalkSessions(parsed_events, i + 1, sessions,
                               Append(current_session, event), event_time, max_gap)

\* a faulty variant: the session in progress at the end is not emitted
identify_sessions_drop_last(user_events, max_gap) ==
    LET parsed_events == SortByTime(ParseEvents(user_events))
        all == IF parsed_events = <<>> THEN <<>>
               ELSE WalkSessions(parsed_events, 2, <<>>, <<parsed_events[1]>>,
                                 parsed_events[1].parsed_time, max_gap)
    IN  IF all = <<>> THEN <<>> ELSE SubSeq(all, 1, Len(all) - 1)

identify_sessions(user_events, max_gap) ==
    IF user_events = <<>>
    THEN <<>>
    ELSE LET parsed_events == SortByTime(ParseEvents(user_events))
         IN  IF parsed_events = <<>>
             THEN <<>>
             ELSE WalkSessions(parsed_events, 2, <<>>, <<parsed_events[1]>>,
                               parsed_events[1].parsed_time, max_gap)

(***************************************************************************)
(* eq_service.py: error messages.  An error_snapshot is None or a string;  *)
(* a string is modelled as the sequence of its phrases (tokens).           *)
(***************************************************************************)
NoneMsg == [kind |-> "None", toks |-> <<>>]
Str(toks) == [kind |-> "str", toks |-> toks]

\* str.lower(), phrase by phrase
LowerTok(tok) ==
    CASE tok = "Cannot Find Symbol" -> "cannot find symbol"
      [] tok = "RuntimeException" -> "runtimeexception"
      [] tok = "Main.java:5: error:" -> "main.java:5: error:"
      [] tok = "Main.java: error:" -> "main.java: error:"
      [] OTHER -> tok

Lower(toks) == [i \in 1..Len(toks) |-> LowerTok(toks[i])]

\* str.strip() leaves nothing
IsBlank(toks) == \A i \in 1..Len(toks) : toks[i] \in {" ", "\n"}

\* the regular expressions of the two tables that match inside one phrase
RegexesIn(tok) ==
    CASE tok = "cannot find symbol" -> {"cannot find symbol"}
      [] tok = "; expected" -> {"; expected"}
      [] tok = "runtimeexception" -> {"runtimeexception"}
      [] tok = "<identifier> expected" -> {"<identifier> expected"}
      [] tok = "illegal start of type" -> {"illegal start of type"}
      [] tok = "( expected" -> {"[{(] expected|illegal start of expression"}
      [] tok = "illegal start of expression" -> {"[{(] expected|illegal start of expression"}
      [] tok = "class or interface expected" -> {"class or interface expected"}
      [] tok = ".class expected" -> {"\\.class expected"}
      [] tok = "not a statement" -> {"not a statement"}
      [] tok = "missing return statement" -> {"missing return statement|missing return value"}
      [] tok = "incompatible types" -> {"incompatible types"}
      [] tok = "has private access" -> {"has private access"}
      [] tok = "cannot be applied to" ->
             {"cannot be applied to|actual and formal argument lists differ"}
      [] tok = "actual and formal argument lists differ" ->
             {"cannot be applied to|actual and formal argument lists differ"}
      [] OTHER -> {}

\* re.search(pattern, lowered_snapshot)
re_search(pattern, lowered) ==
    IF pattern = "constructor.*cannot be applied"
    THEN \E i \in 1..Len(lowered) : \E j \in (i + 1)..Len(lowered) :
            /\ lowered[i] = "constructor"
            /\ lowered[j] = "cannot be applied to"
            /\ \A k \in (i + 1)..(j - 1) : lowered[k] # "\n"
    ELSE \E i \in 1..Len(lowered) : pattern \in RegexesIn(lowered[i])

\* the dict `patterns`, in its insertion order
patterns ==
    << <<"error_cannot_find_symbol", "cannot find symbol">>,
       <<"error_semicolon_expected", "; expected">>,
       <<"error_runtime_exception", "runtimeexception">>,
       <<"error_constructor", "constructor.*cannot be applied">>,
       <<"error_identifier_expected", "<identifier> expected">>,
       <<"error_illegal_start_of_type", "illegal start of type">>,
       <<"bracket_expected", "[{(] expected|illegal start of expression">>,
       <<"class_or_interface_expected", "class or interface expected">>,
       <<"dot_class_expected", "\\.class expected">>,
       <<"not_a_statement", "not a statement">>,
       <<"missing_return", "missing return statement|missing return value">>,
       <<"incompatible_types", "incompatible types">>,
       <<"private_access_violation", "has private access">>,
       <<"method_application_error",
         "cannot be applied to|actual and formal argument lists differ">> >>

\* the dict COUNTED_ERROR_TYPES
COUNTED_ERROR_TYPES ==
    << <<"error_cannot_find_symbol", "cannot find symbol">>,
       <<"error_semicolon_expected", "; expected">>,
       <<"error_runtime_exception", "runtimeexception">>,
       <<"error_constructor", "constructor.*cannot be applied">>,
       <<"error_identifier_expected", "<identifier> expected">>,
       <<"error_illegal_start_of_type", "illegal start of type">> >>

CountedKeys == {COUNTED_ERROR_TYPES[i][1] : i \in 1..Len(COUNTED_ERROR_TYPES)}
ZeroCounts == [k \in CountedKeys |-> 0]

ETYPE_SAME_PENALTY == 11
ETYPE_DIFF_PENALTY == 8
MAX_PENALTY ==
    IF ETYPE_SAME_PENALTY > ETYPE_DIFF_PENALTY THEN ETYPE_SAME_PENALTY
    ELSE ETYPE_DIFF_PENALTY

get_specific_error_counts(error_snapshot) ==
    IF error_snapshot.kind # "str" \/ IsBlank(error_snapshot.toks)
    THEN ZeroCounts
    ELSE LET lowered_snapshot == Lower(error_snapshot.toks)
         IN  [k \in CountedKeys |->
                 IF \E i \in 1..Len(COUNTED_ERROR_TYPES) :
                       /\ COUNTED_ERROR_TYPES[i][1] = k
                       /\ re_search(COUNTED_ERROR_TYPES[i][2], lowered_snapshot)
                 THEN 1 ELSE 0]

\* a faulty variant: the last matching key
parse_error_type_last(error_snapshot) ==
    IF error_snapshot.kind # "str" \/ IsBlank(error_snapshot.toks)
    THEN None
    ELSE LET lowered_snapshot == Lower(error_snapshot.toks)
             hits == {i \in 1..Len(patterns) : re_search(patterns[i][2], lowered_snapshot)}
         IN  IF hits = {} THEN None
             ELSE patterns[CHOOSE i \in hits : \A j \in hits : i >= j][1]

\* the error type of parse_error_details: the first matching key, or None
parse_error_type(error_snapshot) ==
    IF error_snapshot.kind # "str" \/ IsBlank(error_snapshot.toks)
    THEN None
    ELSE LET lowered_snapshot == Lower(error_snapshot.toks)
             hits == {i \in 1..Len(patterns) : re_search(patterns[i][2], lowered_snapshot)}
         IN  IF hits = {} THEN None
             ELSE patterns[CHOOSE i \in hits : \A j \in hits : i <= j][1]

\* ERROR_LINE_PATTERN.search(error_snapshot): the number of the first
\* "file:line: error: " of the message, <<>> without one
error_line_of(toks) ==
    IF \E i \in 1..Len(toks) : toks[i] = "Main.java:5: error:" THEN <<5>> ELSE <<>>

\* parse_error_details: (error_type, error_line)
parse_error_details(error_snapshot) ==
    IF error_snapshot.kind # "str" \/ IsBlank(error_snapshot.toks)
    THEN [error_type |-> None, error_line |-> <<>>]
    ELSE [error_type |-> parse_error_type(error_snapshot),
          error_line |-> error_line_of(error_snapshot.toks)]

\* a faulty variant: an identical pair is scored 0 instead of left out
PairContributionZero(prev_snapshot, curr_snapshot) ==
    IF prev_snapshot.kind # "None" /\ prev_snapshot = curr_snapshot
    THEN <<RatZero>>
    ELSE LET prev_error_type == parse_error_type(prev_snapshot)
             curr_error_type == parse_error_type(curr_snapshot)
             pair_score == IF prev_error_type # None /\ curr_error_type # None
                           THEN IF prev_error_type = curr_error_type
                                THEN ETYPE_SAME_PENALTY ELSE ETYPE_DIFF_PENALTY
                           ELSE 0
         IN  <<Rat(pair_score, MAX_PENALTY)>>

\* a faulty variant: two different types are scored like one type
PairContributionDiffAsSame(prev_snapshot, curr_snapshot) ==
    IF prev_snapshot.kind # "None" /\ prev_snapshot = curr_snapshot
    THEN <<>>
    ELSE LET prev_error_type == parse_error_type(prev_snapshot)
             curr_error_type == parse_error_type(curr_snapshot)
             pair_score == IF prev_error_type # None /\ curr_error_type # None
                           THEN ETYPE_SAME_PENALTY
                           ELSE 0
         IN  <<Rat(pair_score, MAX_PENALTY)>>

\* a faulty variant: one type twice is scored like two different types
PairContributionSameAsDiff(prev_snapshot, curr_snapshot) ==
    IF prev_snapshot.kind # "None" /\ prev_snapshot = curr_snapshot
    THEN <<>>
    ELSE LET prev_error_type == parse_error_type(prev_snapshot)
             curr_error_type == parse_error_type(curr_snapshot)
             pair_score == IF prev_error_type # None /\ curr_error_type # None
                           THEN ETYPE_DIFF_PENALTY
                           ELSE 0
         IN  <<Rat(pair_score, MAX_PENALTY)>>

\* a faulty variant: an identical pair is scored like any same-type pair
PairContributionIdenticalKept(prev_snapshot, curr_snapshot) ==
    LET prev_error_type == parse_error_type(prev_snapshot)
        curr_error_type == parse_error_type(curr_snapshot)
        pair_score == IF prev_error_type # None /\ curr_error_type # None
                      THEN IF prev_error_type = curr_error_type
                           THEN ETYPE_SAME_PENALTY ELSE ETYPE_DIFF_PENALTY
                      ELSE 0
    IN  <<Rat(pair_score, MAX_PENALTY)>>

\* one iteration of the pair loop: what it appends to pair_scores
PairContribution(prev_snapshot, curr_snapshot) ==
    IF prev_snapshot.kind # "None" /\ prev_snapshot = curr_snapshot
    THEN <<>>                                                   \* continue
    ELSE LET prev_error_type == parse_error_type(prev_snapshot)
             curr_error_type == parse_error_type(curr_snapshot)
             pair_score == IF prev_error_type # None /\ curr_error_type # None
                           THEN IF prev_error_type = curr_error_type
                                THEN ETYPE_SAME_PENALTY ELSE ETYPE_DIFF_PENALTY
                           ELSE 0
         IN  <<IF MAX_PENALTY > 0 THEN Rat(pair_score, MAX_PENALTY) ELSE RatZero>>

RECURSIVE PairScores(_, _)
PairScores(session_events, i) ==
    IF i > Len(session_events)
    THEN <<>>
    ELSE PairContribution(session_events[i - 1].error_snapshot,
                          session_events[i].error_snapshot)
         \o PairScores(session_events, i + 1)

\* is the snapshot truthy (`if snapshot:`)
Truthy(snapshot) == snapshot.kind = "str" /\ snapshot.toks # <<>>

\* a faulty variant: only the events of a scored pair are counted
SessionErrorCountsOfScoredPairs(session_events) ==
    LET scored(i) ==
            /\ i \in 2..Len(session_events)
            /\ PairContribution(session_events[i - 1].error_snapshot,
                                session_events[i].error_snapshot) # <<>>
    IN  [k \in CountedKeys |->
            Cardinality({i \in 1..Len(session_events) :
                /\ scored(i) \/ scored(i + 1)
                /\ Truthy(session_events[i].error_snapshot)
                /\ get_specific_error_counts(session_events[i].error_snapshot)[k] = 1})]

RECURSIVE SessionErrorCounts(_)
SessionErrorCounts(session_events) ==
    IF session_events = <<>>
    THEN ZeroCounts
    ELSE LET snapshot == Head(session_events).error_snapshot
             rest == SessionErrorCounts(Tail(session_events))
         IN  IF Truthy(snapshot)
             THEN [k \in CountedKeys |-> rest[k] + get_specific_error_counts(snapshot)[k]]
             ELSE rest

\* a faulty variant: the event of a one-event session is not counted
calculate_session_eq_single_uncounted(session_events) ==
    IF Len(session_events) < 2
    THEN [score |-> RatZero, counts |-> ZeroCounts]
    ELSE LET pair_scores == PairScores(session_events, 2)
         IN  [score |-> IF pair_scores # <<>> THEN Mean(pair_scores) ELSE RatZero,
              counts |-> SessionErrorCounts(session_events)]

calculate_session_eq(session_events) ==
    IF Len(session_events) < 2
    THEN [score |-> RatZero,
          counts |-> IF Len(session_events) = 1 /\ Truthy(session_events[1].error_snapshot)
                     THEN get_specific_error_counts(session_events[1].error_snapshot)
                     ELSE ZeroCounts]
    ELSE LET pair_scores == PairScores(session_events, 2)
         IN  [score |-> IF pair_scores # <<>> THEN Mean(pair_scores) ELSE RatZero,
              counts |-> SessionErrorCounts(session_events)]

(***************************************************************************)
(* eq_service.py: process_user_eq, the part between the fetch and the      *)
(* first write: the sessions' scores, the history records and the metrics. *)
(***************************************************************************)
AddCounts(a, b) == [k \in CountedKeys |-> a[k] + b[k]]

\* fetch_all_feedback_for_user numbers nothing; id is the position in the
\* fetched list, kept to tell the events apart
WithIds(events) ==
    [i \in 1..Len(events) |->
        [id |-> i, created_at |-> events[i].created_at,
         error_snapshot |-> events[i].error_snapshot]]

\* history_record of one session (cluster and performance are not set)
HistoryRecordOf(user_id, session) ==
    LET r == calculate_session_eq(session)
    IN  [user_id |-> user_id,
         session_eq_score |-> r.score,
         session_start_time |-> session[1].parsed_time,
         session_end_time |-> session[Len(session)].parsed_time,
         session_compilations |-> Len(session),
         counts |-> r.counts]

RECURSIVE SumCounts(_)
SumCounts(records) ==
    IF records = <<>> THEN ZeroCounts
    ELSE AddCounts(Head(records).counts, SumCounts(Tail(records)))

\* a faulty variant: an average of 0.0 is taken for no result
ComputeUserEqZeroIsNone(user_id, user_events) ==
    LET sessions == identify_sessions(WithIds(user_events), max_gap_minutes)
        history_records == [i \in 1..Len(sessions) |-> HistoryRecordOf(user_id, sessions[i])]
        all_session_eqs == [i \in 1..Len(sessions) |-> history_records[i].session_eq_score]
    IN  IF user_events = <<>> \/ sessions = <<>> \/ RatSum(all_session_eqs) = RatZero
        THEN [ok |-> FALSE, history_records |-> <<>>, average_eq |-> RatZero,
              total_sessions_analyzed |-> 0, counts |-> ZeroCounts]
        ELSE [ok |-> TRUE, history_records |-> history_records,
              average_eq |-> Mean(all_session_eqs),
              total_sessions_analyzed |-> Len(all_session_eqs),
              counts |-> SumCounts(history_records)]

\* a faulty variant: the mean is weighted by the sessions' events
ComputeUserEqWeighted(user_id, user_events) ==
    LET sessions == identify_sessions(WithIds(user_events), max_gap_minutes)
        history_records == [i \in 1..Len(sessions) |-> HistoryRecordOf(user_id, sessions[i])]
        weighted == [i \in 1..Len(sessions) |->
                       Rat(history_records[i].session_eq_score.n * Len(sessions[i]),
                           history_records[i].session_eq_score.d)]
        events == [i \in 1..Len(sessions) |-> Rat(Len(sessions[i]), 1)]
    IN  IF user_events = <<>> \/ sessions = <<>>
        THEN [ok |-> FALSE, history_records |-> <<>>, average_eq |-> RatZero,
              total_sessions_analyzed |-> 0, counts |-> ZeroCounts]
        ELSE [ok |-> TRUE, history_records |-> history_records,
              average_eq |-> RatDivInt(RatSum(weighted), RatSum(events).n),
              total_sessions_analyzed |-> Len(sessions),
              counts |-> SumCounts(history_records)]

\* a faulty variant: process_user_eq goes on without a session
ComputeUserEqWithoutSessions(user_id, user_events) ==
    LET sessions == identify_sessions(WithIds(user_events), max_gap_minutes)
        history_records == [i \in 1..Len(sessions) |-> HistoryRecordOf(user_id, sessions[i])]
        all_session_eqs == [i \in 1..Len(sessions) |-> history_records[i].session_eq_score]
    IN  [ok |-> TRUE, history_records |-> history_records,
         average_eq |-> IF sessions = <<>> THEN RatZero ELSE Mean(all_session_eqs),
         total_sessions_analyzed |-> Len(all_session_eqs),
         counts |-> SumCounts(history_records)]

\* what process_user_eq computes from the fetched events:
\* ok = FALSE where it returns None before any write
ComputeUserEq(user_id, user_events) ==
    LET sessions == identify_sessions(WithIds(user_events), max_gap_minutes)
        history_records == [i \in 1..Len(sessions) |-> HistoryRecordOf(user_id, sessions[i])]
        all_session_eqs == [i \in 1..Len(sessions) |-> history_records[i].session_eq_score]
    IN  IF user_events = <<>> \/ sessions = <<>>
        THEN [ok |-> FALSE, history_records |-> <<>>, average_eq |-> RatZero,
              total_sessions_analyzed |-> 0, counts |-> ZeroCounts]
        ELSE [ok |-> TRUE, history_records |-> history_records,
              average_eq |-> Mean(all_session_eqs),
              total_sessions_analyzed |-> Len(all_session_eqs),
              counts |-> SumCounts(history_records)]

(***************************************************************************)
(* supabase_service.py: the tables.                                        *)
(*   ai_automated_feedbacks  feedback[u]: the user's events, oldest first  *)
(*   eq_metrics              eq_metrics[u]: the user's row, or no row      *)
(*   eq_metrics_history      a set of rows keyed by id                     *)
(* A null cluster is NoCluster, a null performance is None.                *)
(***************************************************************************)
NoCluster == 0

NoRow ==
    [present |-> FALSE, average_eq_score |-> <<>>, total_sessions_analyzed |-> 0,
     cluster |-> NoCluster, performance |-> None, counts |-> ZeroCounts]

\* supabase.table("eq_metrics").upsert(metrics_data): process_user_eq's columns
UpsertMetricsData(row, metrics_data) ==
    [present |-> TRUE,
     average_eq_score |-> <<metrics_data.average_eq_score>>,
     total_sessions_analyzed |-> metrics_data.total_sessions_analyzed,
     cluster |-> row.cluster,
     performance |-> row.performance,
     counts |-> metrics_data.counts]

\* the same upsert with final_prediction_update's columns; a row it creates
\* has no total_sessions_analyzed (null or the column default: not > 0)
UpsertPrediction(row, cluster_label, performance, average_eq) ==
    [present |-> TRUE,
     average_eq_score |-> <<average_eq>>,
     total_sessions_analyzed |-> row.total_sessions_analyzed,
     cluster |-> cluster_label,
     performance |-> performance,
     counts |-> row.counts]

\* the same upsert with retrain_model's columns (update_eq_metrics_batch)
UpsertLabels(row, cluster_label, performance) ==
    [present |-> TRUE,
     average_eq_score |-> row.average_eq_score,
     total_sessions_analyzed |-> row.total_sessions_analyzed,
     cluster |-> cluster_label,
     performance |-> performance,
     counts |-> row.counts]

\* insert(history_records): the table gives each record the next id
InsertHistory(table, history_records, first_id) ==
    table \cup
    { [id |-> first_id + i - 1,
       user_id |-> history_records[i].user_id,
       session_eq_score |-> <<history_records[i].session_eq_score>>,
       session_start_time |-> history_records[i].session_start_time,
       session_end_time |-> history_records[i].session_end_time,
       session_compilations |-> history_records[i].session_compilations,
       counts |-> history_records[i].counts,
       cluster |-> NoCluster,
       performance |-> None] : i \in 1..Len(history_records) }

\* a faulty variant: the history is append-only
DeleteHistoryNothing(table, user_id) == table

\* a faulty variant: the delete is not restricted to the user
DeleteHistoryOfAll(table, user_id) == {}

\* delete().eq("user_id", user_id)
DeleteHistory(table, user_id) == {r \in table : r.user_id # user_id}

\* a row that an upsert by id creates when no row has that id: the columns
\* the payload does not give are null
NewRowFromUpdate(u) ==
    [id |-> u.id, user_id |-> u.user_id, session_eq_score |-> <<>>,
     session_start_time |-> 0, session_end_time |-> 0, session_compilations |-> 0,
     counts |-> ZeroCounts, cluster |-> u.cluster, performance |-> u.performance]

\* supabase.table("eq_metrics_history").upsert(updates): by primary key id.
\* An update is [id, user_id, cluster, performance]; user_id is None where the
\* payload has no such key (retrain_model), and then the row's is kept.
UpsertHistory(table, updates) ==
    LET ids == {u.id : u \in updates}
        upd(id) == CHOOSE u \in updates : u.id = id
    IN  { IF r.id \in ids
          THEN [r EXCEPT !.cluster = upd(r.id).cluster,
                         !.performance = upd(r.id).performance,
                         !.user_id = IF upd(r.id).user_id = None THEN @
                                     ELSE upd(r.id).user_id]
          ELSE r : r \in table }
        \cup { NewRowFromUpdate(u) : u \in {x \in updates : x.id \notin {r.id : r \in table}} }

(***************************************************************************)
(* prediction_service.py: the model.  The four globals are records:        *)
(*   scaler            [st, ver]           st: "None", "unfit" or "fit"    *)
(*   kmeans            [st, ver, centers]  centers[i + 1]: the mean        *)
(*                                         average_eq_score of cluster i   *)
(*   perf_map          [st, ver, m]        m[i + 1]: the entry of key i,   *)
(*   cluster_label_map [st, ver, m]          None / 0 where the key is     *)
(*                                           absent; st: "None" or "map"   *)
(* ver tells the objects of one retrain_model run from those of another    *)
(* (0: made by load_model).                                                *)
(***************************************************************************)
ClusterIdx == 0..2

NoneModel ==
    [scaler |-> [st |-> "None", ver |-> 0],
     kmeans |-> [st |-> "None", ver |-> 0, centers |-> <<>>],
     perf_map |-> [st |-> "None", ver |-> 0, m |-> <<>>],
     cluster_label_map |-> [st |-> "None", ver |-> 0, m |-> <<>>]]

\* load_model's except branch: a new, unfitted K=3 model
DefaultModel ==
    [scaler |-> [st |-> "unfit", ver |-> 0],
     kmeans |-> [st |-> "unfit", ver |-> 0, centers |-> <<>>],
     perf_map |-> [st |-> "map", ver |-> 0, m |-> <<"HIGH", "MEDIUM", "LOW">>],
     cluster_label_map |-> [st |-> "map", ver |-> 0, m |-> <<1, 2, 3>>]]

NoFile == [exists |-> FALSE, content |-> NoneModel]

AnyNone(m) ==
    \/ m.scaler.st = "None"
    \/ m.kmeans.st = "None"
    \/ m.perf_map.st = "None"
    \/ m.cluster_label_map.st = "None"

\* load_model: the globals it leaves
load_model(file) ==
    IF /\ file.exists
       /\ file.content.perf_map.st # "None"
       /\ file.content.cluster_label_map.st # "None"
    THEN file.content
    ELSE DefaultModel

RatAbsDiff(p, q) == IF RatLess(p, q) THEN RatAdd(q, Rat(-p.n, p.d)) ELSE RatAdd(p, Rat(-q.n, q.d))

\* kmeans.predict(scaler.transform(x)): the index of the nearest centre, the
\* lowest index on a tie.  With a scaler and a kmeans of different fits the
\* centres are not on the scaler's scale: any index may come out.
PredictIndices(m, x) ==
    IF m.scaler.ver = m.kmeans.ver
    THEN { i \in ClusterIdx :
             \A j \in ClusterIdx :
                /\ RatLeq(RatAbsDiff(x, m.kmeans.centers[i + 1]),
                          RatAbsDiff(x, m.kmeans.centers[j + 1]))
                /\ (j < i => RatLess(RatAbsDiff(x, m.kmeans.centers[i + 1]),
                                     RatAbsDiff(x, m.kmeans.centers[j + 1]))) }
    ELSE ClusterIdx

\* perf_map.get(idx, 'MEDIUM') and cluster_label_map.get(idx, 2)
PerfGet(perf_map, idx) == IF perf_map.m[idx + 1] = None THEN "MEDIUM" ELSE perf_map.m[idx + 1]
LabelGet(cluster_label_map, idx) ==
    IF cluster_label_map.m[idx + 1] = 0 THEN 2 ELSE cluster_label_map.m[idx + 1]

\* a faulty variant: a model that was never fitted answers with the first
\* entry of its maps
PredictOutcomesUnfitFirst(m, average_eq_score) ==
    IF AnyNone(m)
    THEN {[performance |-> "MEDIUM", cluster_label |-> 2]}
    ELSE IF m.scaler.st # "fit" \/ m.kmeans.st # "fit"
    THEN {[performance |-> PerfGet(m.perf_map, 0),
           cluster_label |-> LabelGet(m.cluster_label_map, 0)]}
    ELSE { [performance |-> PerfGet(m.perf_map, idx),
            cluster_label |-> LabelGet(m.cluster_label_map, idx)]
           : idx \in PredictIndices(m, average_eq_score) }

\* predict_performance on the globals m (after its own load_model, if any):
\* the pairs it can return
PredictOutcomes(m, average_eq_score) ==
    IF m.scaler.st # "fit" \/ m.kmeans.st # "fit"
    THEN {[performance |-> "MEDIUM", cluster_label |-> 2]}                \* lines 63-69
    ELSE IF m.perf_map.st = "None" \/ m.cluster_label_map.st = "None"
    THEN {[performance |-> "MEDIUM", cluster_label |-> 2]}                \* lines 78-80
    ELSE { [performance |-> PerfGet(m.perf_map, idx),
            cluster_label |-> LabelGet(m.cluster_label_map, idx)]
           : idx \in PredictIndices(m, average_eq_score) }

(***************************************************************************)
(* prediction_service.py: KMeans(n_clusters=3).fit_predict on one feature. *)
(* df maps the user_id of each valid row to its average_eq_score.  A fit   *)
(* ends on a partition where every point is nearest to the mean of its own *)
(* cluster; on one feature the clusters are runs of the sorted values.     *)
(* Which index (0, 1, 2) a cluster gets is the fit's own affair.           *)
(***************************************************************************)
RECURSIVE RatSumOver(_, _)
RatSumOver(df, U) ==
    IF U = {} THEN RatZero
    ELSE LET u == CHOOSE x \in U : TRUE
         IN  RatAdd(df[u], RatSumOver(df, U \ {u}))

MeanOver(df, U) == RatDivInt(RatSumOver(df, U), Cardinality(U))

Min(a, b) == IF a < b THEN a ELSE b

\* the groupings of the distinct values into k runs, numbered 1..k upwards
Groupings(df, k) ==
    LET vals == {df[u] : u \in DOMAIN df}
        members(g, j) == {u \in DOMAIN df : g[df[u]] = j}
    IN  { g \in [vals -> 1..k] :
            /\ \A j \in 1..k : \E v \in vals : g[v] = j
            /\ \A v \in vals : \A w \in vals : RatLess(v, w) => g[v] <= g[w]
            /\ \A v \in vals : \A j \in 1..k :
                  RatLeq(RatAbsDiff(v, MeanOver(df, members(g, g[v]))),
                         RatAbsDiff(v, MeanOver(df, members(g, j)))) }

Injections(k) == { p \in [1..k -> ClusterIdx] : \A a \in 1..k : \A b \in 1..k : p[a] = p[b] => a = b }

\* the fits: [labels: user -> index, centers]
KMeansFits(df) ==
    LET vals == {df[u] : u \in DOMAIN df}
        k == Min(Cardinality(vals), 3)
    IN  { [labels |-> [u \in DOMAIN df |-> p[g[df[u]]]],
           centers |-> [i \in 1..3 |->
                          IF \E j \in 1..k : p[j] = i - 1
                          THEN MeanOver(df, {u \in DOMAIN df :
                                               p[g[df[u]]] = i - 1})
                          ELSE MeanOver(df, {u \in DOMAIN df : g[df[u]] = 1})]]
          : g \in Groupings(df, k), p \in Injections(k) }

\* a faulty variant: the clusters by descending mean
ClusterOrderDesc(df, labels) ==
    LET found == {labels[u] : u \in DOMAIN df}
        mean(i) == MeanOver(df, {u \in DOMAIN df : labels[u] = i})
        rank(i) == Cardinality({j \in found : RatLess(mean(i), mean(j))})
    IN  [n \in 1..Cardinality(found) |-> CHOOSE i \in found : rank(i) = n - 1]

\* df.groupby('ClusterIndex')['average_eq_score'].mean().sort_values().index
ClusterOrder(df, labels) ==
    LET found == {labels[u] : u \in DOMAIN df}
        mean(i) == MeanOver(df, {u \in DOMAIN df : labels[u] = i})
        rank(i) == Cardinality({j \in found : RatLess(mean(j), mean(i))})
    IN  [n \in 1..Cardinality(found) |-> CHOOSE i \in found : rank(i) = n - 1]

performance_labels == <<"HIGH", "MEDIUM", "LOW">>
cluster_labels == <<1, 2, 3>>

(***************************************************************************)
(* State.                                                                  *)
(***************************************************************************)
VARIABLES
    feedback,            \* table ai_automated_feedbacks, by user
    eq_metrics,          \* table eq_metrics, by user
    eq_metrics_history,  \* table eq_metrics_history
    next_id,             \* the next id of eq_metrics_history
    model_metadata,      \* how often model_metadata was written
    model,               \* the globals scaler, kmeans, perf_map, cluster_label_map
    model_file,          \* the artifact at MODEL_PATH
    started,             \* the startup event has run
    rt,                  \* the scheduler's thread, in retrain_model
    cl,                  \* the event loop, in classify_user
    budget,              \* requests, retrains and store faults still to come
    fn_pc,               \* the pure function under call and whether it has returned
    fn_in,               \* its argument
    fn_out               \* its result

storeVars == <<feedback, eq_metrics, eq_metrics_history, next_id, model_metadata>>
modelVars == <<model, model_file, started>>
fnVars == <<fn_pc, fn_in, fn_out>>
vars == <<feedback, eq_metrics, eq_metrics_history, next_id, model_metadata,
          model, model_file, started, rt, cl, budget, fn_pc, fn_in, fn_out>>

Users == {"u1", "u2", "u3", "u4"}

MsgA == Str(<<"Main.java:5: error:", "cannot find symbol", "x">>)
MsgA2 == Str(<<"Main.java:5: error:", "cannot find symbol", "y">>)
MsgS == Str(<<"; expected">>)

Event(t, msg) == [created_at |-> TS("utc", t), error_snapshot |-> msg]

\* the events already in ai_automated_feedbacks when the service is set up:
\* averages 0 (one event), 1 (same type twice), 8/11 (two types), and a
\* user without a usable event yet: the only one has a timestamp that does
\* not parse
DeployedFeedback ==
    [u \in Users |->
        CASE u = "u1" -> <<Event(0, MsgA)>>
          [] u = "u2" -> <<Event(0, MsgA), Event(5, MsgA2)>>
          [] u = "u3" -> <<Event(0, MsgA), Event(5, MsgS)>>
          [] OTHER -> <<[created_at |-> TS("garbled", 0), error_snapshot |-> MsgA]>>]

\* the same with one user fewer: two rows in eq_metrics
SmallFeedback == [DeployedFeedback EXCEPT !["u3"] = <<>>]

RtIdle ==
    [pc |-> "idle", n |-> 0, df |-> <<>>, labels |-> <<>>, cluster_order |-> <<>>, i |-> 0,
     user_final_state |-> <<>>, updates_history |-> {},
     result |-> "none", alone |-> FALSE, faultless |-> FALSE, failed |-> "none",
     before |-> [model |-> NoneModel, model_file |-> NoFile, eq_metrics |-> <<>>,
                 eq_metrics_history |-> {}, model_metadata |-> 0]]

ClIdle ==
    [pc |-> "idle", user_id |-> None, eq |-> <<>>, average_eq |-> RatZero,
     performance |-> None, cluster_label |-> NoCluster, ids |-> {},
     response |-> "none", used |-> NoneModel, during |-> 0, missing |-> FALSE]

FnIdle ==
    /\ fn_pc = "none"
    /\ fn_in = <<>>
    /\ fn_out = <<>>

\* no service: the state of the variables of the service under the
\* specifications of the pure functions
ServiceIdle ==
    /\ feedback = [u \in Users |-> <<>>]
    /\ eq_metrics = [u \in Users |-> NoRow]
    /\ eq_metrics_history = {}
    /\ next_id = 1
    /\ model_metadata = 0
    /\ model = NoneModel
    /\ model_file = NoFile
    /\ started = FALSE
    /\ rt = RtIdle
    /\ cl = ClIdle
    /\ budget = [requests |-> 0, retrains |-> 0, faults |-> 0]

(***************************************************************************)
(* Store faults.  A call to the store or to the model file may fail while  *)
(* budget.faults lasts.                                                    *)
(***************************************************************************)
Faults == IF budget.faults > 0 THEN {FALSE, TRUE} ELSE {FALSE}
Spend(b, f) == IF f THEN [b EXCEPT !.faults = @ - 1] ELSE b

\* a step of another operation ends a retrain's being alone
Disturb == rt' = [rt EXCEPT !.alone = FALSE]

(***************************************************************************)
(* main.py: the startup event (load_model).                                *)
(***************************************************************************)
LoadModelOnStartup ==
    /\ ~started
    /\ started' = TRUE
    /\ model' = load_model(model_file)
    /\ UNCHANGED <<storeVars, model_file, rt, cl, budget, fnVars>>

(***************************************************************************)
(* main.py: classify_user, one request at a time (the handler never        *)
(* awaits), a step per call to the store.                                  *)
(***************************************************************************)
\* the requests: who submits, what message, how long after the user's last
\* event.  The first ties u1's average with u2's, the second is a second
\* session of u3, the third is the first event of a new user.
Requests ==
    { [user_id |-> "u1", error_snapshot |-> MsgA2, gap |-> 5],
      [user_id |-> "u3", error_snapshot |-> MsgS, gap |-> 40],
      [user_id |-> "u4", error_snapshot |-> MsgS, gap |-> 40] }

LastTime(events) ==
    IF events = <<>> THEN 0 ELSE events[Len(events)].created_at.t

Respond(response) ==
    cl' = [cl EXCEPT !.pc = "done", !.response = response, !.eq = <<>>, !.ids = {}]

\* the request arrives; save_raw_error_snapshot (a failure is logged only)
ClassifySave ==
    /\ started
    /\ cl.pc \in {"idle", "done"}
    /\ budget.requests > 0
    /\ \E req \in Requests, f \in Faults :
          /\ feedback' = IF f THEN feedback
                         ELSE [feedback EXCEPT
                                 ![req.user_id] =
                                    Append(@, Event(LastTime(@) + req.gap, req.error_snapshot))]
          /\ cl' = [ClIdle EXCEPT !.pc = "fetch", !.user_id = req.user_id]
          /\ budget' = Spend([budget EXCEPT !.requests = @ - 1], f)
    /\ Disturb
    /\ UNCHANGED <<eq_metrics, eq_metrics_history, next_id, model_metadata, modelVars, fnVars>>

\* a faulty variant: without an average the request goes on to the prediction
\* with 0.0
ClassifyFetchGoesOn ==
    /\ cl.pc = "fetch"
    /\ \E f \in Faults :
          LET user_events == IF f THEN <<>> ELSE feedback[cl.user_id]
              eq == ComputeUserEq(cl.user_id, user_events)
          IN  /\ IF eq.ok
                 THEN cl' = [cl EXCEPT !.pc = "delete", !.eq = eq, !.average_eq = eq.average_eq]
                 ELSE cl' = [cl EXCEPT !.pc = "predict", !.average_eq = RatZero]
              /\ budget' = Spend(budget, f)
    /\ Disturb
    /\ UNCHANGED <<storeVars, modelVars, fnVars>>

\* process_user_eq: fetch_all_feedback_for_user (a failure gives no events),
\* then the sessions and their scores; None makes classify_user raise
ClassifyFetch ==
    /\ cl.pc = "fetch"
    /\ \E f \in Faults :
          LET user_events == IF f THEN <<>> ELSE feedback[cl.user_id]
              eq == ComputeUserEq(cl.user_id, user_events)
          IN  /\ IF eq.ok
                 THEN cl' = [cl EXCEPT !.pc = "delete", !.eq = eq, !.average_eq = eq.average_eq]
                 ELSE Respond("error")
              /\ budget' = Spend(budget, f)
    /\ Disturb
    /\ UNCHANGED <<storeVars, modelVars, fnVars>>

\* delete_eq_metrics_history (a failure is logged only)
ClassifyDelete ==
    /\ cl.pc = "delete"
    /\ \E f \in Faults :
          /\ eq_metrics_history' = IF f THEN eq_metrics_history
                                   ELSE DeleteHistory(eq_metrics_history, cl.user_id)
          /\ budget' = Spend(budget, f)
    /\ cl' = [cl EXCEPT !.pc = "insert"]
    /\ Disturb
    /\ UNCHANGED <<feedback, eq_metrics, next_id, model_metadata, modelVars, fnVars>>

\* insert_eq_metrics_history_batch (a failure is logged only)
ClassifyInsert ==
    /\ cl.pc = "insert"
    /\ \E f \in Faults :
          /\ IF f
             THEN UNCHANGED <<eq_metrics_history, next_id>>
             ELSE /\ eq_metrics_history' =
                        InsertHistory(eq_metrics_history, cl.eq.history_records, next_id)
                  /\ next_id' = next_id + Len(cl.eq.history_records)
          /\ budget' = Spend(budget, f)
    /\ cl' = [cl EXCEPT !.pc = "upsert"]
    /\ Disturb
    /\ UNCHANGED <<feedback, eq_metrics, model_metadata, modelVars, fnVars>>

\* upsert_eq_metrics (a failure is logged only); process_user_eq returns
ClassifyUpsert ==
    /\ cl.pc = "upsert"
    /\ \E f \in Faults :
          /\ eq_metrics' = IF f THEN eq_metrics
                           ELSE [eq_metrics EXCEPT ![cl.user_id] =
                                   UpsertMetricsData(@,
                                     [average_eq_score |-> cl.eq.average_eq,
                                      total_sessions_analyzed |-> cl.eq.total_sessions_analyzed,
                                      counts |-> cl.eq.counts])]
          /\ budget' = Spend(budget, f)
    /\ cl' = [cl EXCEPT !.pc = "predict", !.eq = <<>>]
    /\ Disturb
    /\ UNCHANGED <<feedback, eq_metrics_history, next_id, model_metadata, modelVars, fnVars>>

\* predict_performance, lines 57-59: a component is None, load_model() is
\* called
ClassifyPredictLoad ==
    /\ cl.pc = "predict"
    /\ AnyNone(model)
    /\ model' = load_model(model_file)
    /\ cl' = [cl EXCEPT !.pc = "predict_loaded", !.missing = TRUE]
    /\ Disturb
    /\ UNCHANGED <<storeVars, model_file, started, budget, fnVars>>

\* lines 60-61: a component is None after load_model(): RuntimeError, which
\* classify_user answers with 500 "Model not available." (main.py 77-79)
ClassifyPredictRecheck ==
    /\ cl.pc = "predict_loaded"
    /\ IF AnyNone(model)
       THEN Respond("model_unavailable")
       ELSE cl' = [cl EXCEPT !.pc = "predict_checked"]
    /\ Disturb
    /\ UNCHANGED <<storeVars, modelVars, budget, fnVars>>

\* lines 63-80: the default for a scaler or a kmeans that is not fitted (or
\* None by now), else the prediction
ClassifyPredict ==
    /\ \/ cl.pc = "predict" /\ ~AnyNone(model)
       \/ cl.pc = "predict_checked"
    /\ \E r \in PredictOutcomes(model, cl.average_eq) :
          cl' = [cl EXCEPT !.pc = "final_metrics",
                           !.performance = r.performance,
                           !.cluster_label = r.cluster_label,
                           !.used = model,
                           !.during = IF rt.pc \in {"idle", "done"} THEN 0 ELSE rt.n]
    /\ Disturb
    /\ UNCHANGED <<storeVars, modelVars, budget, fnVars>>

\* final_prediction_update: the upsert of eq_metrics (a failure raises)
ClassifyFinalMetrics ==
    /\ cl.pc = "final_metrics"
    /\ \E f \in Faults :
          /\ IF f
             THEN /\ UNCHANGED eq_metrics
                  /\ Respond("error")
             ELSE /\ eq_metrics' = [eq_metrics EXCEPT ![cl.user_id] =
                                      UpsertPrediction(@, cl.cluster_label, cl.performance,
                                                       cl.average_eq)]
                  /\ cl' = [cl EXCEPT !.pc = "final_select"]
          /\ budget' = Spend(budget, f)
    /\ Disturb
    /\ UNCHANGED <<feedback, eq_metrics_history, next_id, model_metadata, modelVars, fnVars>>

\* final_prediction_update: select("id").eq("user_id", user_id); a failure is
\* logged only and the request succeeds
ClassifyFinalSelect ==
    /\ cl.pc = "final_select"
    /\ \E f \in Faults :
          LET ids == {r.id : r \in {x \in eq_metrics_history : x.user_id = cl.user_id}}
          IN  /\ IF f \/ ids = {}
                 THEN Respond("ok")
                 ELSE cl' = [cl EXCEPT !.pc = "final_history", !.ids = ids]
              /\ budget' = Spend(budget, f)
    /\ Disturb
    /\ UNCHANGED <<storeVars, modelVars, fnVars>>

\* final_prediction_update: the upsert of the user's history records
ClassifyFinalHistory ==
    /\ cl.pc = "final_history"
    /\ \E f \in Faults :
          /\ eq_metrics_history' =
                IF f THEN eq_metrics_history
                ELSE UpsertHistory(eq_metrics_history,
                        { [id |-> id, user_id |-> cl.user_id, cluster |-> cl.cluster_label,
                           performance |-> cl.performance] : id \in cl.ids })
          /\ budget' = Spend(budget, f)
    /\ Respond("ok")
    /\ Disturb
    /\ UNCHANGED <<feedback, eq_metrics, next_id, model_metadata, modelVars, fnVars>>

(***************************************************************************)
(* prediction_service.py: retrain_model, on the scheduler's thread, a step *)
(* per assignment to a global and per call to the store.                   *)
(***************************************************************************)
RtDone(result) ==
    [rt EXCEPT !.pc = "done", !.result = result, !.cluster_order = <<>>,
               !.i = 0, !.updates_history = {}]

\* rt.faultless: no call of this run to the store or to the file has failed;
\* rt.failed: the step of this run whose call failed last
RtStep(r, f) == [r EXCEPT !.faultless = @ /\ ~f, !.failed = IF f THEN rt.pc ELSE @]

\* a faulty variant: no row is dropped
ValidRowsAll(table, data) == data

\* lines 91-99: the rows left after dropna and total_sessions_analyzed > 0
ValidRows(table, data) ==
    {u \in data : /\ table[u].average_eq_score # <<>>              \* dropna
                  /\ table[u].total_sessions_analyzed > 0}

\* lines 88-99: fetch_all_eq_metrics (a failure gives no rows), the two
\* "not enough data" returns
RetrainFetch ==
    /\ started
    /\ rt.pc \in {"idle", "done"}
    /\ budget.retrains > 0
    /\ \E f \in Faults :
          LET data == IF f THEN {} ELSE {u \in Users : eq_metrics[u].present}
              valid == ValidRows(eq_metrics, data)
              begun == [RtIdle EXCEPT
                          !.n = rt.n + 1,
                          !.alone = cl.pc \in {"idle", "done"},
                          !.faultless = ~f,
                          !.failed = IF f THEN "fetch" ELSE "none",
                          !.before = [model |-> model, model_file |-> model_file,
                                      eq_metrics |-> eq_metrics,
                                      eq_metrics_history |-> eq_metrics_history,
                                      model_metadata |-> model_metadata]]
          IN  /\ rt' = IF Cardinality(data) < 3
                       THEN [begun EXCEPT !.pc = "done", !.result = "too_few_rows"]
                       ELSE IF Cardinality(valid) < 3
                       THEN [begun EXCEPT !.pc = "done", !.result = "too_few_valid"]
                       ELSE [begun EXCEPT !.pc = "new_scaler",
                                !.df = [u \in valid |-> eq_metrics[u].average_eq_score[1]]]
              /\ budget' = Spend([budget EXCEPT !.retrains = @ - 1], f)
    /\ UNCHANGED <<storeVars, modelVars, cl, fnVars>>

\* line 105: scaler = StandardScaler()
RetrainNewScaler ==
    /\ rt.pc = "new_scaler"
    /\ model' = [model EXCEPT !.scaler = [st |-> "unfit", ver |-> rt.n]]
    /\ rt' = [rt EXCEPT !.pc = "fit_scaler"]
    /\ UNCHANGED <<storeVars, model_file, started, cl, budget, fnVars>>

\* line 106: scaler.fit_transform(X_new)
RetrainFitScaler ==
    /\ rt.pc = "fit_scaler"
    /\ model' = [model EXCEPT !.scaler = [st |-> "fit", ver |-> rt.n]]
    /\ rt' = [rt EXCEPT !.pc = "new_kmeans"]
    /\ UNCHANGED <<storeVars, model_file, started, cl, budget, fnVars>>

\* line 112: kmeans = KMeans(n_clusters=3, ...)
RetrainNewKMeans ==
    /\ rt.pc = "new_kmeans"
    /\ model' = [model EXCEPT !.kmeans = [st |-> "unfit", ver |-> rt.n, centers |-> <<>>]]
    /\ rt' = [rt EXCEPT !.pc = "fit_kmeans"]
    /\ UNCHANGED <<storeVars, model_file, started, cl, budget, fnVars>>

\* lines 114-121: kmeans.fit_predict(X_scaled), cluster_order
RetrainFitKMeans ==
    /\ rt.pc = "fit_kmeans"
    /\ \E fit \in KMeansFits(rt.df) :
          /\ model' = [model EXCEPT !.kmeans = [st |-> "fit", ver |-> rt.n,
                                                centers |-> fit.centers]]
          /\ rt' = [rt EXCEPT !.pc = "new_perf_map", !.labels = fit.labels,
                              !.cluster_order = ClusterOrder(rt.df, fit.labels)]
    /\ UNCHANGED <<storeVars, model_file, started, cl, budget, fnVars>>

\* line 129: perf_map = {}
RetrainNewPerfMap ==
    /\ rt.pc = "new_perf_map"
    /\ model' = [model EXCEPT !.perf_map = [st |-> "map", ver |-> rt.n,
                                            m |-> <<None, None, None>>]]
    /\ rt' = [rt EXCEPT !.pc = "new_label_map"]
    /\ UNCHANGED <<storeVars, model_file, started, cl, budget, fnVars>>

\* lines 130-131: cluster_label_map = {}; if len(cluster_order) == 3
RetrainNewLabelMap ==
    /\ rt.pc = "new_label_map"
    /\ model' = [model EXCEPT !.cluster_label_map = [st |-> "map", ver |-> rt.n,
                                                     m |-> <<0, 0, 0>>]]
    /\ rt' = [rt EXCEPT !.pc = IF Len(rt.cluster_order) = 3 THEN "set_perf" ELSE "not3",
                        !.i = 1]
    /\ UNCHANGED <<storeVars, model_file, started, cl, budget, fnVars>>

\* line 133: perf_map[int(cluster_idx)] = performance_labels[i]
SetPerf(perf_map, cluster_idx, i) ==
    [perf_map EXCEPT !.m[cluster_idx + 1] = performance_labels[i]]

\* a faulty variant: the label follows the index KMeans gave the cluster
SetLabelByIndex(cluster_label_map, cluster_idx, i) ==
    [cluster_label_map EXCEPT !.m[cluster_idx + 1] = cluster_labels[cluster_idx + 1]]

\* line 134: cluster_label_map[int(cluster_idx)] = cluster_labels[i]
SetLabel(cluster_label_map, cluster_idx, i) ==
    [cluster_label_map EXCEPT !.m[cluster_idx + 1] = cluster_labels[i]]

RetrainSetPerf ==
    /\ rt.pc = "set_perf"
    /\ model' = [model EXCEPT !.perf_map = SetPerf(@, rt.cluster_order[rt.i], rt.i)]
    /\ rt' = [rt EXCEPT !.pc = "set_label"]
    /\ UNCHANGED <<storeVars, model_file, started, cl, budget, fnVars>>

RetrainSetLabel ==
    /\ rt.pc = "set_label"
    /\ model' = [model EXCEPT !.cluster_label_map = SetLabel(@, rt.cluster_order[rt.i], rt.i)]
    /\ rt' = [rt EXCEPT !.pc = IF rt.i = 3 THEN "save" ELSE "set_perf",
                        !.i = IF rt.i = 3 THEN 0 ELSE rt.i + 1]
    /\ UNCHANGED <<storeVars, model_file, started, cl, budget, fnVars>>

\* line 139: scaler, kmeans, perf_map, cluster_label_map = None, None, None, None
\* the i-th of its four stores to the globals, in the order of the targets
NotThreeClusters(m, i) ==
    CASE i = 1 -> [m EXCEPT !.scaler = NoneModel.scaler]
      [] i = 2 -> [m EXCEPT !.kmeans = NoneModel.kmeans]
      [] i = 3 -> [m EXCEPT !.perf_map = NoneModel.perf_map]
      [] OTHER -> [m EXCEPT !.cluster_label_map = NoneModel.cluster_label_map]

\* lines 137-140: KMeans did not produce 3 clusters
RetrainNotThree ==
    /\ rt.pc = "not3"
    /\ model' = NotThreeClusters(model, rt.i)
    /\ rt' = IF rt.i = 4 THEN RtDone("not_three_clusters") ELSE [rt EXCEPT !.i = rt.i + 1]
    /\ UNCHANGED <<storeVars, model_file, started, cl, budget, fnVars>>

\* lines 142-143, 156: the labels of the fitted rows, by the two maps
UserFinalState(df, labels, m) ==
    [u \in DOMAIN df |->
        [ClusterLabel |-> m.cluster_label_map.m[labels[u] + 1],
         Performance |-> m.perf_map.m[labels[u] + 1]]]

\* lines 142-151: joblib.dump (a failure returns)
RetrainSave ==
    /\ rt.pc = "save"
    /\ \E f \in Faults :
          /\ IF f
             THEN /\ UNCHANGED model_file
                  /\ rt' = RtStep(RtDone("save_failed"), f)
             ELSE /\ model_file' = [exists |-> TRUE, content |-> model]
                  /\ rt' = [rt EXCEPT !.pc = "update_metrics",
                               !.user_final_state = UserFinalState(rt.df, rt.labels, model)]
          /\ budget' = Spend(budget, f)
    /\ UNCHANGED <<storeVars, model, started, cl, fnVars>>

\* lines 153-172: updates_metrics, upserted by user_id
UpdateMetrics(table, user_final_state) ==
    [u \in DOMAIN table |->
        IF u \in DOMAIN user_final_state
        THEN UpsertLabels(table[u], user_final_state[u].ClusterLabel,
                          user_final_state[u].Performance)
        ELSE table[u]]

\* lines 153-175: update_eq_metrics_batch (a failure is logged only)
RetrainUpdateMetrics ==
    /\ rt.pc = "update_metrics"
    /\ \E f \in Faults :
          /\ eq_metrics' = IF f THEN eq_metrics
                           ELSE UpdateMetrics(eq_metrics, rt.user_final_state)
          /\ rt' = RtStep([rt EXCEPT !.pc = "fetch_history"], f)
          /\ budget' = Spend(budget, f)
    /\ UNCHANGED <<feedback, eq_metrics_history, next_id, model_metadata, modelVars, cl, fnVars>>

\* a faulty variant: only the records without a label are updated
UpdatesStaleKept(records, user_final_state) ==
    { [id |-> r.id, user_id |-> None, cluster |-> user_final_state[r.user_id].ClusterLabel,
       performance |-> user_final_state[r.user_id].Performance]
      : r \in {x \in records :
                 /\ x.user_id \in DOMAIN user_final_state
                 /\ x.id # 0
                 /\ x.cluster = NoCluster} }

\* a faulty variant: every record of a fitted user is updated, alike or not
HistoryUpdatesUncompared(records, user_final_state) ==
    { [id |-> r.id, user_id |-> None, cluster |-> user_final_state[r.user_id].ClusterLabel,
       performance |-> user_final_state[r.user_id].Performance]
      : r \in {x \in records :
                 /\ x.user_id \in DOMAIN user_final_state
                 /\ x.id # 0} }

\* lines 186-229: the updates of the records whose labels differ
HistoryUpdates(records, user_final_state) ==
    { [id |-> r.id, user_id |-> None, cluster |-> user_final_state[r.user_id].ClusterLabel,
       performance |-> user_final_state[r.user_id].Performance]
      : r \in {x \in records :
                 /\ x.user_id \in DOMAIN user_final_state
                 /\ x.id # 0
                 /\ \/ x.cluster # user_final_state[x.user_id].ClusterLabel
                    \/ x.performance # user_final_state[x.user_id].Performance} }

\* lines 180-231: fetch_all_eq_metrics_history (a failure gives no records)
RetrainFetchHistory ==
    /\ rt.pc = "fetch_history"
    /\ \E f \in Faults :
          LET all_history_records == IF f THEN {} ELSE eq_metrics_history
              updates_history == HistoryUpdates(all_history_records, rt.user_final_state)
          IN  /\ rt' = RtStep([rt EXCEPT !.pc = IF updates_history = {} THEN "metadata"
                                                ELSE "update_history",
                                         !.updates_history = updates_history], f)
              /\ budget' = Spend(budget, f)
    /\ UNCHANGED <<storeVars, modelVars, cl, fnVars>>

\* line 235: update_eq_metrics_history_batch (a failure is logged only)
RetrainUpdateHistory ==
    /\ rt.pc = "update_history"
    /\ \E f \in Faults :
          /\ eq_metrics_history' = IF f THEN eq_metrics_history
                                   ELSE UpsertHistory(eq_metrics_history, rt.updates_history)
          /\ rt' = RtStep([rt EXCEPT !.pc = "metadata", !.updates_history = {}], f)
          /\ budget' = Spend(budget, f)
    /\ UNCHANGED <<feedback, eq_metrics, next_id, model_metadata, modelVars, cl, fnVars>>

\* lines 244-256: update_model_metadata (a failure is logged only)
RetrainMetadata ==
    /\ rt.pc = "metadata"
    /\ \E f \in Faults :
          /\ model_metadata' = IF f THEN model_metadata ELSE model_metadata + 1
          /\ rt' = RtStep(RtDone("success"), f)
          /\ budget' = Spend(budget, f)
    /\ UNCHANGED <<feedback, eq_metrics, eq_metrics_history, next_id, modelVars, cl, fnVars>>

(***************************************************************************)
(* The service: set up on a store that calculate_initial_eq.py has filled  *)
(* from the events already there (calculate_historical_eq_all_users: one   *)
(* process_user_eq per user, no labels yet), no model file.                *)
(***************************************************************************)
\* one process_user_eq of the run: the store it leaves
HistoricalStep(st, u, eq) ==
    IF eq.ok
    THEN [eq_metrics |-> [st.eq_metrics EXCEPT ![u] =
             UpsertMetricsData(@,
               [average_eq_score |-> eq.average_eq,
                total_sessions_analyzed |-> eq.total_sessions_analyzed,
                counts |-> eq.counts])],
          eq_metrics_history |->
             InsertHistory(DeleteHistory(st.eq_metrics_history, u),
                           eq.history_records, st.next_id),
          next_id |-> st.next_id + Len(eq.history_records)]
    ELSE st

RECURSIVE HistoricalRun(_, _, _)
HistoricalRun(fb, users, st) ==
    IF users = <<>>
    THEN st
    ELSE CHOOSE end \in
            { HistoricalRun(fb, Tail(users), next) :
                next \in { HistoricalStep(st, Head(users), eq) :
                             eq \in {ComputeUserEq(Head(users), fb[Head(users)])} } } : TRUE

Deployed(fb) ==
    HistoricalRun(fb, <<"u1", "u2", "u3", "u4">>,
                  [eq_metrics |-> [u \in Users |-> NoRow], eq_metrics_history |-> {},
                   next_id |-> 1])

\* the store without a model: nothing trained yet
Untrained(st) ==
    [eq_metrics |-> st.eq_metrics, eq_metrics_history |-> st.eq_metrics_history,
     next_id |-> st.next_id, model_metadata |-> 0, model_file |-> NoFile]

\* run_initial_training.py: one retrain_model in a process of its own, before
\* the service starts; it leaves the artifact and the labels in the store
InitialTraining(st) ==
    LET data == {u \in Users : st.eq_metrics[u].present}
        valid == ValidRows(st.eq_metrics, data)
        df == [u \in valid |-> st.eq_metrics[u].average_eq_score[1]]
        fit == CHOOSE x \in KMeansFits(df) : TRUE
        cluster_order == ClusterOrder(df, fit.labels)
        empty_perf == [st |-> "map", ver |-> 0, m |-> <<None, None, None>>]
        empty_label == [st |-> "map", ver |-> 0, m |-> <<0, 0, 0>>]
        m == [scaler |-> [st |-> "fit", ver |-> 0],
              kmeans |-> [st |-> "fit", ver |-> 0, centers |-> fit.centers],
              perf_map |-> SetPerf(SetPerf(SetPerf(empty_perf, cluster_order[1], 1),
                                           cluster_order[2], 2), cluster_order[3], 3),
              cluster_label_map |-> SetLabel(SetLabel(SetLabel(empty_label, cluster_order[1], 1),
                                                      cluster_order[2], 2), cluster_order[3], 3)]
        user_final_state == UserFinalState(df, fit.labels, m)
    IN  IF Cardinality(valid) < 3 \/ Cardinality({df[u] : u \in valid}) < 3
        THEN Untrained(st)
        ELSE [eq_metrics |-> UpdateMetrics(st.eq_metrics, user_final_state),
              eq_metrics_history |->
                 UpsertHistory(st.eq_metrics_history,
                               HistoryUpdates(st.eq_metrics_history, user_final_state)),
              next_id |-> st.next_id,
              model_metadata |-> 1,
              model_file |-> [exists |-> TRUE, content |-> m]]

InitService(st, b) ==
    /\ eq_metrics = st.eq_metrics
    /\ eq_metrics_history = st.eq_metrics_history
    /\ next_id = st.next_id
    /\ model_metadata = st.model_metadata
    /\ model_file = st.model_file
    /\ model = NoneModel
    /\ started = FALSE
    /\ rt = RtIdle
    /\ cl = ClIdle
    /\ budget = b
    /\ FnIdle

\* the service is set up on three scored users, trained or not yet, or on two
Deployments ==
    { [feedback |-> DeployedFeedback, trained |-> FALSE],
      [feedback |-> DeployedFeedback, trained |-> TRUE],
      [feedback |-> SmallFeedback, trained |-> FALSE] }

InitDeployed(deployments, b) ==
    \E d \in deployments :
       \E st \in {Deployed(d.feedback)} :
          \E tr \in {IF d.trained THEN InitialTraining(st) ELSE Untrained(st)} :
             /\ feedback = d.feedback
             /\ InitService(tr, b)

MaxRequests == 1
MaxRetrains == 1
MaxFaults == 1

Init ==
    InitDeployed(Deployments,
                 [requests |-> MaxRequests, retrains |-> MaxRetrains, faults |-> MaxFaults])

Classify ==
    \/ ClassifySave
    \/ ClassifyFetch
    \/ ClassifyDelete
    \/ ClassifyInsert
    \/ ClassifyUpsert
    \/ ClassifyPredictLoad
    \/ ClassifyPredictRecheck
    \/ ClassifyPredict
    \/ ClassifyFinalMetrics
    \/ ClassifyFinalSelect
    \/ ClassifyFinalHistory

Retrain ==
    \/ RetrainFetch
    \/ RetrainNewScaler
    \/ RetrainFitScaler
    \/ RetrainNewKMeans
    \/ RetrainFitKMeans
    \/ RetrainNewPerfMap
    \/ RetrainNewLabelMap
    \/ RetrainSetPerf
    \/ RetrainSetLabel
    \/ RetrainNotThree
    \/ RetrainSave
    \/ RetrainUpdateMetrics
    \/ RetrainFetchHistory
    \/ RetrainUpdateHistory
    \/ RetrainMetadata

Next == LoadModelOnStartup \/ Classify \/ Retrain

Spec == Init /\ [][Next]_vars

\* the same service where two calls may fail, set up untrained
MaxFaultsFaulty == 2

InitFaulty ==
    InitDeployed({[feedback |-> DeployedFeedback, trained |-> FALSE]},
                 [requests |-> MaxRequests, retrains |-> MaxRetrains,
                  faults |-> MaxFaultsFaulty])

SpecFaulty == InitFaulty /\ [][Next]_vars

\* the service set up when every user has events that parse (u4's one event
\* has a timestamp like the others'), or on the small store
ParseableFeedback == [DeployedFeedback EXCEPT !["u4"] = <<Event(0, MsgA)>>]

InitParseable ==
    InitDeployed({[feedback |-> ParseableFeedback, trained |-> FALSE],
                  [feedback |-> SmallFeedback, trained |-> FALSE]},
                 [requests |-> MaxRequests, retrains |-> MaxRetrains, faults |-> MaxFaults])

SpecParseable == InitParseable /\ [][Next]_vars

(***************************************************************************)
(* identify_sessions on every list of at most MaxEvents events.            *)
(***************************************************************************)
SegTimestamps ==
    { TS("null", 0), TS("garbled", 0), TS("Z", 0), TS("naive", 30),
      TS("utc", 31), TS("utc", 61), TS("plus1h", 60), TS("plus1h", 121) }

SeqsUpTo(S, n) == UNION { [1..k -> S] : k \in 0..n }

SegInputs ==
    { [i \in 1..Len(tss) |->
          [id |-> i, created_at |-> tss[i], error_snapshot |-> Str(<<"cannot find symbol">>)]]
      : tss \in SeqsUpTo(SegTimestamps, MaxEvents) }

InitSeg ==
    /\ ServiceIdle
    /\ fn_pc = "identify_sessions:call"
    /\ fn_in \in SegInputs
    /\ fn_out = <<>>

CallIdentifySessions ==
    /\ fn_pc = "identify_sessions:call"
    /\ fn_out' = identify_sessions(fn_in, max_gap_minutes)
    /\ fn_pc' = "identify_sessions:ret"
    /\ UNCHANGED <<fn_in, storeVars, modelVars, rt, cl, budget>>

NextSeg == CallIdentifySessions

SpecSeg == InitSeg /\ [][NextSeg]_vars

(***************************************************************************)
(* calculate_session_eq on every session of at most MaxEvents events.      *)
(***************************************************************************)
EQMessages ==
    { NoneMsg, Str(<<>>), Str(<<" ">>),
      Str(<<"Main.java:5: error:", "cannot find symbol", "x">>),
      Str(<<"Main.java:5: error:", "cannot find symbol", "y">>),
      Str(<<"Main.java:5: error:", "Cannot Find Symbol", "x">>),
      Str(<<"; expected">>),
      Str(<<"cannot find symbol", "\n", "; expected">>),
      Str(<<"x">>) }

EQInputs ==
    { [i \in 1..Len(ms) |->
          [id |-> i, created_at |-> TS("utc", i), error_snapshot |-> ms[i], parsed_time |-> i]]
      : ms \in SeqsUpTo(EQMessages, MaxEvents) }

InitEQ ==
    /\ ServiceIdle
    /\ fn_pc = "calculate_session_eq:call"
    /\ fn_in \in EQInputs
    /\ fn_out = <<>>

CallCalculateSessionEq ==
    /\ fn_pc = "calculate_session_eq:call"
    /\ fn_out' = calculate_session_eq(fn_in)
    /\ fn_pc' = "calculate_session_eq:ret"
    /\ UNCHANGED <<fn_in, storeVars, modelVars, rt, cl, budget>>

NextEQ == CallCalculateSessionEq

SpecEQ == InitEQ /\ [][NextEQ]_vars

(***************************************************************************)
(* parse_error_details on every message of at most MaxPhrases phrases.     *)
(***************************************************************************)
MaxPhrases == 3

ParsePhrases ==
    { " ", "\n", "Main.java:5: error:", "Main.java: error:", "cannot find symbol",
      "Cannot Find Symbol", "; expected", "constructor", "cannot be applied to",
      "incompatible types", "x" }

\* a value that is not a string (a number, a dict)
NotAString == [kind |-> "other", toks |-> <<>>]

ParseInputs == {NoneMsg, NotAString} \cup {Str(toks) : toks \in SeqsUpTo(ParsePhrases, MaxPhrases)}

InitParse ==
    /\ ServiceIdle
    /\ fn_pc = "parse_error_details:call"
    /\ fn_in \in ParseInputs
    /\ fn_out = <<>>

CallParseErrorDetails ==
    /\ fn_pc = "parse_error_details:call"
    /\ fn_out' = parse_error_details(fn_in)
    /\ fn_pc' = "parse_error_details:ret"
    /\ UNCHANGED <<fn_in, storeVars, modelVars, rt, cl, budget>>

NextParse == CallParseErrorDetails

SpecParse == InitParse /\ [][NextParse]_vars

(***************************************************************************)
(* process_user_eq, from the fetched events to the values it returns and   *)
(* writes, on every list of at most MaxEvents events of one user.          *)
(***************************************************************************)
UserTimestamps == { TS("garbled", 0), TS("utc", 0), TS("utc", 5), TS("utc", 10), TS("utc", 50) }

UserMessages == { NoneMsg, MsgA, MsgA2, MsgS }

UserInputs ==
    { [i \in 1..Len(es) |-> [created_at |-> es[i][1], error_snapshot |-> es[i][2]]]
      : es \in SeqsUpTo(UserTimestamps \X UserMessages, MaxEvents) }

InitUser ==
    /\ ServiceIdle
    /\ fn_pc = "process_user_eq:call"
    /\ fn_in \in UserInputs
    /\ fn_out = <<>>

CallProcessUserEq ==
    /\ fn_pc = "process_user_eq:call"
    /\ fn_out' = ComputeUserEq("u1", fn_in)
    /\ fn_pc' = "process_user_eq:ret"
    /\ UNCHANGED <<fn_in, storeVars, modelVars, rt, cl, budget>>

NextUser == CallProcessUserEq

SpecUser == InitUser /\ [][NextUser]_vars

(***************************************************************************)
(* process_user_eq for every user at once, one run per user, the runs      *)
(* interleaved call by call to the store.  fn_pc[u] is where u's run is,   *)
(* fn_in[u] what it has computed, fn_out the store when the runs began.    *)
(***************************************************************************)
\* the events stored since the users were last processed
ReprocessedFeedback ==
    [DeployedFeedback EXCEPT !["u1"] = Append(@, Event(5, MsgA2)),
                             !["u3"] = Append(@, Event(45, MsgS))]

InitPar ==
    \E st \in {Deployed(DeployedFeedback)} :
       /\ feedback = ReprocessedFeedback
       /\ eq_metrics = st.eq_metrics
       /\ eq_metrics_history = st.eq_metrics_history
       /\ next_id = st.next_id
       /\ model_metadata = 0
       /\ model_file = NoFile
       /\ model = NoneModel
       /\ started = FALSE
       /\ rt = RtIdle
       /\ cl = ClIdle
       /\ budget = [requests |-> 0, retrains |-> 0, faults |-> MaxFaults]
       /\ fn_pc = [u \in Users |-> "fetch"]
       /\ fn_in = [u \in Users |-> <<>>]
       /\ fn_out = [eq_metrics |-> st.eq_metrics,
                    eq_metrics_history |-> st.eq_metrics_history,
                    next_id |-> st.next_id]

\* lines 253-313: the fetch (a failure gives no events) and the computation
ParFetch(u) ==
    /\ fn_pc[u] = "fetch"
    /\ \E f \in Faults :
          LET eq == ComputeUserEq(u, IF f THEN <<>> ELSE feedback[u])
          IN  /\ fn_pc' = [fn_pc EXCEPT ![u] = IF eq.ok THEN "delete" ELSE "done"]
              /\ fn_in' = [fn_in EXCEPT ![u] = IF eq.ok THEN eq ELSE <<>>]
              /\ budget' = Spend(budget, f)
    /\ UNCHANGED <<storeVars, modelVars, rt, cl, fn_out>>

\* line 317
ParDelete(u) ==
    /\ fn_pc[u] = "delete"
    /\ \E f \in Faults :
          /\ eq_metrics_history' = IF f THEN eq_metrics_history
                                   ELSE DeleteHistory(eq_metrics_history, u)
          /\ budget' = Spend(budget, f)
    /\ fn_pc' = [fn_pc EXCEPT ![u] = "insert"]
    /\ UNCHANGED <<feedback, eq_metrics, next_id, model_metadata, modelVars, rt, cl,
                   fn_in, fn_out>>

\* lines 318-319
ParInsert(u) ==
    /\ fn_pc[u] = "insert"
    /\ \E f \in Faults :
          /\ IF f
             THEN UNCHANGED <<eq_metrics_history, next_id>>
             ELSE /\ eq_metrics_history' =
                        InsertHistory(eq_metrics_history, fn_in[u].history_records, next_id)
                  /\ next_id' = next_id + Len(fn_in[u].history_records)
          /\ budget' = Spend(budget, f)
    /\ fn_pc' = [fn_pc EXCEPT ![u] = "upsert"]
    /\ UNCHANGED <<feedback, eq_metrics, model_metadata, modelVars, rt, cl, fn_in, fn_out>>

\* lines 327-349
ParUpsert(u) ==
    /\ fn_pc[u] = "upsert"
    /\ \E f \in Faults :
          /\ eq_metrics' = IF f THEN eq_metrics
                           ELSE [eq_metrics EXCEPT ![u] =
                                   UpsertMetricsData(@,
                                     [average_eq_score |-> fn_in[u].average_eq,
                                      total_sessions_analyzed |-> fn_in[u].total_sessions_analyzed,
                                      counts |-> fn_in[u].counts])]
          /\ budget' = Spend(budget, f)
    /\ fn_pc' = [fn_pc EXCEPT ![u] = "done"]
    /\ fn_in' = [fn_in EXCEPT ![u] = <<>>]
    /\ UNCHANGED <<feedback, eq_metrics_history, next_id, model_metadata, modelVars, rt, cl,
                   fn_out>>

NextPar == \E u \in Users : ParFetch(u) \/ ParDelete(u) \/ ParInsert(u) \/ ParUpsert(u)

SpecPar == InitPar /\ [][NextPar]_vars

(***************************************************************************)
(* Two process_user_eq runs for the same user (two workers serving         *)
(* /classify, or calculate_initial_eq.py beside the service), interleaved  *)
(* call by call to the store.  fn_pc[r] is where run r is, fn_in[r] what   *)
(* it has computed, fn_out the user.                                       *)
(***************************************************************************)
Runs == {1, 2}

InitTwin ==
    \E st \in {Deployed(DeployedFeedback)} :
       /\ feedback \in {DeployedFeedback, ReprocessedFeedback}
       /\ eq_metrics = st.eq_metrics
       /\ eq_metrics_history = st.eq_metrics_history
       /\ next_id = st.next_id
       /\ model_metadata = 0
       /\ model_file = NoFile
       /\ model = NoneModel
       /\ started = FALSE
       /\ rt = RtIdle
       /\ cl = ClIdle
       /\ budget = [requests |-> 0, retrains |-> 0, faults |-> MaxFaults]
       /\ fn_pc = [r \in Runs |-> "fetch"]
       /\ fn_in = [r \in Runs |-> <<>>]
       /\ fn_out \in Users

\* lines 253-313: the fetch (a failure gives no events) and the computation
TwinFetch(r) ==
    /\ fn_pc[r] = "fetch"
    /\ \E f \in Faults :
          LET eq == ComputeUserEq(fn_out, IF f THEN <<>> ELSE feedback[fn_out])
          IN  /\ fn_pc' = [fn_pc EXCEPT ![r] = IF eq.ok THEN "delete" ELSE "done"]
              /\ fn_in' = [fn_in EXCEPT ![r] = IF eq.ok THEN eq ELSE <<>>]
              /\ budget' = Spend(budget, f)
    /\ UNCHANGED <<storeVars, modelVars, rt, cl, fn_out>>

\* line 317
TwinDelete(r) ==
    /\ fn_pc[r] = "delete"
    /\ \E f \in Faults :
          /\ eq_metrics_history' = IF f THEN eq_metrics_history
                                   ELSE DeleteHistory(eq_metrics_history, fn_out)
          /\ budget' = Spend(budget, f)
    /\ fn_pc' = [fn_pc EXCEPT ![r] = "insert"]
    /\ UNCHANGED <<feedback, eq_metrics, next_id, model_metadata, modelVars, rt, cl,
                   fn_in, fn_out>>

\* lines 318-319
TwinInsert(r) ==
    /\ fn_pc[r] = "insert"
    /\ \E f \in Faults :
          /\ IF f
             THEN UNCHANGED <<eq_metrics_history, next_id>>
             ELSE /\ eq_metrics_history' =
                        InsertHistory(eq_metrics_history, fn_in[r].history_records, next_id)
                  /\ next_id' = next_id + Len(fn_in[r].history_records)
          /\ budget' = Spend(budget, f)
    /\ fn_pc' = [fn_pc EXCEPT ![r] = "upsert"]
    /\ UNCHANGED <<feedback, eq_metrics, model_metadata, modelVars, rt, cl, fn_in, fn_out>>

\* lines 327-349
TwinUpsert(r) ==
    /\ fn_pc[r] = "upsert"
    /\ \E f \in Faults :
          /\ eq_metrics' = IF f THEN eq_metrics
                           ELSE [eq_metrics EXCEPT ![fn_out] =
                                   UpsertMetricsData(@,
                                     [average_eq_score |-> fn_in[r].average_eq,
                                      total_sessions_analyzed |-> fn_in[r].total_sessions_analyzed,
                                      counts |-> fn_in[r].counts])]
          /\ budget' = Spend(budget, f)
    /\ fn_pc' = [fn_pc EXCEPT ![r] = "done"]
    /\ fn_in' = [fn_in EXCEPT ![r] = <<>>]
    /\ UNCHANGED <<feedback, eq_metrics_history, next_id, model_metadata, modelVars, rt, cl,
                   fn_out>>

NextTwin == \E r \in Runs : TwinFetch(r) \/ TwinDelete(r) \/ TwinInsert(r) \/ TwinUpsert(r)

SpecTwin == InitTwin /\ [][NextTwin]_vars

(***************************************************************************)
(* supabase_service.py: the paginated fetches, page by page, on every      *)
(* table of at most MaxRows rows.  A row is [id, created_at], the ids in   *)
(* the order of created_at (the store gives no order by id).  fn_in is     *)
(* the call: which fetch, and the rows that match; fn_out is the loop's    *)
(* state: records, start, and the number of pages requested.               *)
(***************************************************************************)
MaxRows == 4

\* batch_size (1000 and 2000 in the source)
PageSize == 2

FetchTables ==
    UNION { { { [id |-> i, created_at |-> c[i]] : i \in 1..n }
              : c \in { d \in [1..n -> {0, 5, 10, 15}] :
                          \A i, j \in 1..n : i < j => d[i] <= d[j] } }
            : n \in 0..MaxRows }

FetchCalls ==
    { [fetch |-> f, table |-> t]
      : f \in {"fetch_all_feedback_for_user", "fetch_all_eq_metrics_history"},
        t \in FetchTables }

\* the orders in which a query can give the rows: .order("created_at",
\* desc=False) fixes the order up to rows of equal created_at; a select
\* without .order leaves the order of the rows to the store, query by query
QueryOrders(call) ==
    LET n == Cardinality(call.table)
    IN  { o \in [1..n -> call.table] :
            /\ \A i, j \in 1..n : o[i] = o[j] => i = j
            /\ call.fetch = "fetch_all_feedback_for_user"
                  => \A i, j \in 1..n : i < j => o[i].created_at <= o[j].created_at }

\* .range(start, start + batch_size - 1): the rows at these 0-based
\* positions of the query's result, as many as there are
range(rows, start, end) ==
    IF start + 1 > Len(rows) THEN <<>>
    ELSE SubSeq(rows, start + 1, IF end + 1 < Len(rows) THEN end + 1 ELSE Len(rows))

InitFetch ==
    /\ feedback = [u \in Users |-> <<>>]
    /\ eq_metrics = [u \in Users |-> NoRow]
    /\ eq_metrics_history = {}
    /\ next_id = 1
    /\ model_metadata = 0
    /\ model = NoneModel
    /\ model_file = NoFile
    /\ started = FALSE
    /\ rt = RtIdle
    /\ cl = ClIdle
    /\ budget = [requests |-> 0, retrains |-> 0, faults |-> MaxFaults]
    /\ fn_pc = "fetch:page"
    /\ fn_in \in FetchCalls
    /\ fn_out = [records |-> <<>>, start |-> 0, pages |-> 0, failed |-> FALSE]

\* one pass of "while True": the page is requested (a failure ends the loop
\* with the records so far), appended, and the loop ends on an empty or a
\* short page
FetchPage ==
    /\ fn_pc = "fetch:page"
    /\ \E f \in Faults :
          /\ budget' = Spend(budget, f)
          /\ IF f
             THEN /\ fn_out' = [fn_out EXCEPT !.pages = @ + 1, !.failed = TRUE]
                  /\ fn_pc' = "fetch:ret"
             ELSE \E rows \in QueryOrders(fn_in) :
                     \E batch \in {range(rows, fn_out.start, fn_out.start + PageSize - 1)} :
                        /\ fn_out' = [fn_out EXCEPT
                                        !.records = @ \o batch,
                                        !.pages = @ + 1,
                                        !.start = IF batch = <<>> \/ Len(batch) < PageSize
                                                  THEN @ ELSE @ + PageSize]
                        /\ fn_pc' = IF batch = <<>> \/ Len(batch) < PageSize
                                    THEN "fetch:ret" ELSE "fetch:page"
    /\ UNCHANGED <<fn_in, storeVars, modelVars, rt, cl>>

NextFetch == FetchPage

SpecFetch == InitFetch /\ [][NextFetch]_vars

(***************************************************************************)
(* run_initial_training.py beside the running service: a process of its    *)
(* own that calls load_model() and retrain_model() on the same store and    *)
(* the same model file.  Its globals are its own: fn_in holds them and the *)
(* run's locals, fn_pc where the run is, fn_out how it ended.  Nothing in   *)
(* the script, in retrain_model or in the scheduler's job looks for         *)
(* another run.                                                            *)
(***************************************************************************)
ScriptIdle == [model |-> NoneModel, user_final_state |-> <<>>, updates_history |-> {}]

\* lines 101-134 in one piece: the model a fit leaves in the globals
FittedModel(fit, cluster_order, ver) ==
    LET empty_perf == [st |-> "map", ver |-> ver, m |-> <<None, None, None>>]
        empty_label == [st |-> "map", ver |-> ver, m |-> <<0, 0, 0>>]
    IN  [scaler |-> [st |-> "fit", ver |-> ver],
         kmeans |-> [st |-> "fit", ver |-> ver, centers |-> fit.centers],
         perf_map |-> SetPerf(SetPerf(SetPerf(empty_perf, cluster_order[1], 1),
                                      cluster_order[2], 2), cluster_order[3], 3),
         cluster_label_map |-> SetLabel(SetLabel(SetLabel(empty_label, cluster_order[1], 1),
                                                 cluster_order[2], 2), cluster_order[3], 3)]

ScriptEnd(result) ==
    /\ fn_pc' = "script:done"
    /\ fn_out' = result
    /\ fn_in' = ScriptIdle

\* run_training: load_model(), then retrain_model up to the end of the fit
\* (all of it on the process's own globals)
ScriptFetch ==
    /\ fn_pc = "script:idle"
    /\ \E f \in Faults :
          LET data == IF f THEN {} ELSE {u \in Users : eq_metrics[u].present}
              valid == ValidRows(eq_metrics, data)
              df == [u \in valid |-> eq_metrics[u].average_eq_score[1]]
          IN  /\ IF Cardinality(data) < 3
                 THEN ScriptEnd("too_few_rows")
                 ELSE IF Cardinality(valid) < 3
                 THEN ScriptEnd("too_few_valid")
                 ELSE \E fit \in KMeansFits(df) :
                         \E cluster_order \in {ClusterOrder(df, fit.labels)} :
                            IF Len(cluster_order) # 3
                            THEN ScriptEnd("not_three_clusters")
                            ELSE \E m \in {FittedModel(fit, cluster_order, -1)} :
                                    /\ fn_pc' = "script:save"
                                    /\ fn_in' = [model |-> m,
                                                 user_final_state |->
                                                    UserFinalState(df, fit.labels, m),
                                                 updates_history |-> {}]
                                    /\ fn_out' = fn_out
              /\ budget' = Spend(budget, f)
    /\ UNCHANGED <<storeVars, modelVars, rt, cl>>

ScriptSave ==
    /\ fn_pc = "script:save"
    /\ \E f \in Faults :
          /\ IF f
             THEN /\ UNCHANGED model_file
                  /\ ScriptEnd("save_failed")
             ELSE /\ model_file' = [exists |-> TRUE, content |-> fn_in.model]
                  /\ fn_pc' = "script:update_metrics"
                  /\ UNCHANGED <<fn_in, fn_out>>
          /\ budget' = Spend(budget, f)
    /\ UNCHANGED <<storeVars, model, started, rt, cl>>

ScriptUpdateMetrics ==
    /\ fn_pc = "script:update_metrics"
    /\ \E f \in Faults :
          /\ eq_metrics' = IF f THEN eq_metrics
                           ELSE UpdateMetrics(eq_metrics, fn_in.user_final_state)
          /\ budget' = Spend(budget, f)
    /\ fn_pc' = "script:fetch_history"
    /\ UNCHANGED <<feedback, eq_metrics_history, next_id, model_metadata, modelVars, rt, cl,
                   fn_in, fn_out>>

ScriptFetchHistory ==
    /\ fn_pc = "script:fetch_history"
    /\ \E f \in Faults :
          LET all_history_records == IF f THEN {} ELSE eq_metrics_history
              updates_history == HistoryUpdates(all_history_records, fn_in.user_final_state)
          IN  /\ fn_pc' = IF updates_history = {} THEN "script:metadata"
                          ELSE "script:update_history"
              /\ fn_in' = [fn_in EXCEPT !.updates_history = updates_history]
              /\ budget' = Spend(budget, f)
    /\ UNCHANGED <<storeVars, modelVars, rt, cl, fn_out>>

ScriptUpdateHistory ==
    /\ fn_pc = "script:update_history"
    /\ \E f \in Faults :
          /\ eq_metrics_history' = IF f THEN eq_metrics_history
                                   ELSE UpsertHistory(eq_metrics_history, fn_in.updates_history)
          /\ budget' = Spend(budget, f)
    /\ fn_pc' = "script:metadata"
    /\ fn_in' = [fn_in EXCEPT !.updates_history = {}]
    /\ UNCHANGED <<feedback, eq_metrics, next_id, model_metadata, modelVars, rt, cl, fn_out>>

ScriptMetadata ==
    /\ fn_pc = "script:metadata"
    /\ \E f \in Faults :
          /\ model_metadata' = IF f THEN model_metadata ELSE model_metadata + 1
          /\ budget' = Spend(budget, f)
    /\ ScriptEnd("success")
    /\ UNCHANGED <<feedback, eq_metrics, eq_metrics_history, next_id, modelVars, rt, cl>>

Script ==
    \/ ScriptFetch
    \/ ScriptSave
    \/ ScriptUpdateMetrics
    \/ ScriptFetchHistory
    \/ ScriptUpdateHistory
    \/ ScriptMetadata

\* the store the script finds: three scored users, or three with two scores
\* alike
InitScript ==
    \E fb \in {DeployedFeedback, ReprocessedFeedback} :
       \E st \in {Deployed(fb)} :
          /\ feedback = fb
          /\ eq_metrics = st.eq_metrics
          /\ eq_metrics_history = st.eq_metrics_history
          /\ next_id = st.next_id
          /\ model_metadata = 0
          /\ model_file = NoFile
          /\ model = NoneModel
          /\ started = FALSE
          /\ rt = RtIdle
          /\ cl = ClIdle
          /\ budget = [requests |-> 0, retrains |-> MaxRetrains, faults |-> MaxFaults]
          /\ fn_pc = "script:idle"
          /\ fn_in = ScriptIdle
          /\ fn_out = "none"

NextScript == LoadModelOnStartup \/ Retrain \/ Script

SpecScript == InitScript /\ [][NextScript]_vars

(***************************************************************************)
(* retrain_model invoked again and again (the daily job), no request and   *)
(* no other writer in between.                                             *)
(***************************************************************************)
MaxRetrainsRepeated == 2

\* the events of a user with `pairs` sessions of two events of one type
\* (different messages, 5 minutes apart), then `singles` sessions of one
\* event; a session starts 100 minutes after the session before
SessionsFeedback(pairs, singles) ==
    [j \in 1..(2 * pairs + singles) |->
        IF j <= 2 * pairs
        THEN IF j % 2 = 1 THEN Event(100 * ((j + 1) \div 2 - 1), MsgA)
             ELSE Event(100 * (j \div 2 - 1) + 5, MsgA2)
        ELSE Event(100 * (j - pairs - 1), MsgA)]

\* three users with the averages 0.1 (1.0 once in 10 sessions), 0.5 and 0.9
ScenarioFeedback ==
    [u \in Users |->
        CASE u = "u1" -> SessionsFeedback(1, 9)
          [] u = "u2" -> SessionsFeedback(1, 1)
          [] u = "u3" -> SessionsFeedback(9, 1)
          [] OTHER -> <<>>]

InitRepeated ==
    \E fb \in {DeployedFeedback, ReprocessedFeedback, ScenarioFeedback} :
       \E st \in {Deployed(fb)} :
          /\ feedback = fb
          /\ eq_metrics = st.eq_metrics
          /\ eq_metrics_history = st.eq_metrics_history
          /\ next_id = st.next_id
          /\ model_metadata = 0
          /\ model_file = NoFile
          /\ model = NoneModel
          /\ started = FALSE
          /\ rt = RtIdle
          /\ cl = ClIdle
          /\ budget = [requests |-> 0, retrains |-> MaxRetrainsRepeated, faults |-> MaxFaults]
          /\ FnIdle

NextRepeated == LoadModelOnStartup \/ Retrain

SpecRepeated == InitRepeated /\ [][NextRepeated]_vars

(***************************************************************************)
(* update_history_clusters.py beside the running service: run_history_     *)
(* update in a process of its own, once.  fn_pc is where the run is, fn_in *)
(* its locals user_final_state and updates_history, fn_out how it ended.   *)
(***************************************************************************)
HistoryIdle == [user_final_state |-> <<>>, updates_history |-> {}]

HistoryEnd(result) ==
    /\ fn_pc' = "history:done"
    /\ fn_out' = result
    /\ fn_in' = HistoryIdle

\* lines 43-59: fetch_all_eq_metrics (a failure gives no rows), the final
\* state of every user with a row
HistoryFetchMetrics ==
    /\ fn_pc = "history:idle"
    /\ \E f \in Faults :
          LET final_metrics == IF f THEN {} ELSE {u \in Users : eq_metrics[u].present}
          IN  /\ IF final_metrics = {}
                 THEN HistoryEnd("no_metrics")
                 ELSE /\ fn_pc' = "history:fetch_history"
                      /\ fn_in' = [user_final_state |->
                                      [u \in final_metrics |->
                                          [cluster |-> eq_metrics[u].cluster,
                                           performance |-> eq_metrics[u].performance]],
                                   updates_history |-> {}]
                      /\ fn_out' = fn_out
              /\ budget' = Spend(budget, f)
    /\ UNCHANGED <<storeVars, modelVars, rt, cl>>

\* lines 73-126: the updates of the records whose labels differ from the
\* user's row, and null for the labelled records of a user without a row
run_history_update_updates(records, user_final_state) ==
    { [id |-> r.id, user_id |-> r.user_id,
       cluster |-> user_final_state[r.user_id].cluster,
       performance |-> user_final_state[r.user_id].performance]
      : r \in {x \in records :
                 /\ x.user_id # None
                 /\ x.id # 0
                 /\ x.user_id \in DOMAIN user_final_state
                 /\ \/ x.cluster # user_final_state[x.user_id].cluster
                    \/ x.performance # user_final_state[x.user_id].performance} }
    \cup
    { [id |-> r.id, user_id |-> r.user_id, cluster |-> NoCluster, performance |-> None]
      : r \in {x \in records :
                 /\ x.user_id # None
                 /\ x.id # 0
                 /\ x.user_id \notin DOMAIN user_final_state
                 /\ \/ x.cluster # NoCluster
                    \/ x.performance # None} }

\* lines 62-139: fetch_all_eq_metrics_history (a failure gives no records)
HistoryFetchHistory ==
    /\ fn_pc = "history:fetch_history"
    /\ \E f \in Faults :
          LET all_history_records == IF f THEN {} ELSE eq_metrics_history
              updates_history ==
                 run_history_update_updates(all_history_records, fn_in.user_final_state)
          IN  /\ IF all_history_records = {}
                 THEN HistoryEnd("no_history")
                 ELSE IF updates_history = {}
                 THEN HistoryEnd("nothing_to_update")
                 ELSE /\ fn_pc' = "history:update"
                      /\ fn_in' = [fn_in EXCEPT !.updates_history = updates_history]
                      /\ fn_out' = fn_out
              /\ budget' = Spend(budget, f)
    /\ UNCHANGED <<storeVars, modelVars, rt, cl>>

\* lines 135-141: update_eq_metrics_history_batch (a failure is logged only)
HistoryUpdate ==
    /\ fn_pc = "history:update"
    /\ \E f \in Faults :
          /\ eq_metrics_history' = IF f THEN eq_metrics_history
                                   ELSE UpsertHistory(eq_metrics_history, fn_in.updates_history)
          /\ budget' = Spend(budget, f)
    /\ HistoryEnd("finished")
    /\ UNCHANGED <<feedback, eq_metrics, next_id, model_metadata, modelVars, rt, cl>>

run_history_update ==
    \/ HistoryFetchMetrics
    \/ HistoryFetchHistory
    \/ HistoryUpdate

InitHistory ==
    \E st \in {Deployed(DeployedFeedback)} :
       /\ feedback = DeployedFeedback
       /\ eq_metrics = st.eq_metrics
       /\ eq_metrics_history = st.eq_metrics_history
       /\ next_id = st.next_id
       /\ model_metadata = 0
       /\ model_file = NoFile
       /\ model = NoneModel
       /\ started = FALSE
       /\ rt = RtIdle
       /\ cl = ClIdle
       /\ budget = [requests |-> MaxRequests, retrains |-> MaxRetrains,
                    faults |-> MaxFaultsFaulty]
       /\ fn_pc = "history:idle"
       /\ fn_in = HistoryIdle
       /\ fn_out = "none"

\* a request, a retrain_model run and the script one after another, in any
\* order: none starts or moves while another is under way
ClassifyQuiet == cl.pc \in {"idle", "done"}
RetrainQuiet == rt.pc \in {"idle", "done"}
HistoryQuiet == fn_pc \in {"history:idle", "history:done"}

NextHistory ==
    \/ LoadModelOnStartup
    \/ RetrainQuiet /\ HistoryQuiet /\ Classify
    \/ ClassifyQuiet /\ HistoryQuiet /\ Retrain
    \/ ClassifyQuiet /\ RetrainQuiet /\ run_history_update

SpecHistory == InitHistory /\ [][NextHistory]_vars

(***************************************************************************)
(* Properties of retrain_model and predict_performance.                    *)
(***************************************************************************)
\* predict_performance takes the model for loaded and fitted
Fitted(m) ==
    /\ ~AnyNone(m)
    /\ m.scaler.st = "fit"
    /\ m.kmeans.st = "fit"

RetrainEnded(results) == rt.pc = "done" /\ rt.result \in results

\* the fitted batch of the last retrain_model run
Batch == DOMAIN rt.df

\* every history record of user u carries the labels of u's profile
HistoryMatchesProfile(history, metrics, u) ==
    \A r \in history :
        r.user_id = u => /\ r.cluster = metrics[u].cluster
                         /\ r.performance = metrics[u].performance

StoreAsBefore ==
    /\ eq_metrics = rt.before.eq_metrics
    /\ eq_metrics_history = rt.before.eq_metrics_history

C2_EventuallyConsistent ==
    (RetrainEnded({"success"}) /\ rt.faultless /\ rt.alone)
        => \A u \in Users : HistoryMatchesProfile(eq_metrics_history, eq_metrics, u)

\* C3: once the model is fitted, a retrain_model run that ran alone leaves
\* it fitted, and a run that did not succeed leaves the model it found.
C3_NeverRegresses ==
    (rt.pc = "done" /\ rt.alone /\ Fitted(rt.before.model))
        => /\ Fitted(model)
           /\ rt.result # "success" => model = rt.before.model

\* C4: a retrain_model run whose fit does not give 3 clusters leaves the
\* model it found, and writes no profile and no history record.
C4_NotThreeLeavesModel ==
    (RetrainEnded({"not_three_clusters"}) /\ rt.alone /\ Fitted(rt.before.model))
        => /\ model = rt.before.model
           /\ StoreAsBefore

ValidIn(metrics) ==
    {u \in Users : /\ metrics[u].present
                   /\ metrics[u].average_eq_score # <<>>
                   /\ metrics[u].total_sessions_analyzed > 0}

\* C5: a retrain_model run that fetched fewer than 3 rows, or began on fewer
\* than 3 valid rows, ends there: with no step of another operation since it
\* began, the model, the artifact, eq_metrics, eq_metrics_history and the
\* metadata are as it found them, and it has made no assignment.
C5_TooFewRowsNoChange ==
    (/\ rt.n > 0
     /\ rt.alone
     /\ \/ RetrainEnded({"too_few_rows", "too_few_valid"})
        \/ Cardinality(ValidIn(rt.before.eq_metrics)) < 3)
        => /\ RetrainEnded({"too_few_rows", "too_few_valid"})
           /\ model = rt.before.model
           /\ model_file = rt.before.model_file
           /\ StoreAsBefore
           /\ model_metadata = rt.before.model_metadata
           /\ rt.user_final_state = <<>>

\* 3 rows fetched, fewer than 3 of them valid
C5_Witness ==
    /\ RetrainEnded({"too_few_valid"})
    /\ rt.alone
    /\ Cardinality({u \in Users : rt.before.eq_metrics[u].present}) >= 3
    /\ Cardinality(ValidIn(rt.before.eq_metrics)) < 3

\* C6: the model a predict_performance call used while a retrain_model run
\* was under way (a run that began on a fitted model and succeeded) is the
\* model from before that run or the model after it.
C6_FullyFormedModel ==
    (/\ RetrainEnded({"success"})
     /\ Fitted(rt.before.model)
     /\ cl.during = rt.n
     /\ rt.n > 0)
        => cl.used \in {rt.before.model, model}

\* C7: after a successful retrain_model the two maps are bijections from the
\* 3 cluster indices onto {1, 2, 3} and {HIGH, MEDIUM, LOW}, and the cluster
\* with r clusters of lower mean average_eq_score gets the (r + 1)-th label;
\* so of two fitted users the one in the cluster of lower mean never has the
\* larger label.
C7_OrderedBijection ==
    RetrainEnded({"success"}) =>
        LET found == {rt.labels[u] : u \in Batch}
            mean(i) == MeanOver(rt.df, {u \in Batch : rt.labels[u] = i})
            rank(i) == Cardinality({j \in found : RatLess(mean(j), mean(i))})
        IN  /\ found = ClusterIdx
            /\ {model.cluster_label_map.m[i + 1] : i \in found} = {1, 2, 3}
            /\ {model.perf_map.m[i + 1] : i \in found} = {"HIGH", "MEDIUM", "LOW"}
            /\ \A i \in found :
                  /\ model.cluster_label_map.m[i + 1] = rank(i) + 1
                  /\ model.perf_map.m[i + 1] = <<"HIGH", "MEDIUM", "LOW">>[rank(i) + 1]
            /\ \A u \in Batch : \A v \in Batch :
                  RatLess(mean(rt.labels[u]), mean(rt.labels[v]))
                     => rt.user_final_state[u].ClusterLabel
                           <= rt.user_final_state[v].ClusterLabel

\* a successful retrain whose fit numbered the clusters out of the order of
\* their means, one cluster holding two users
C7_Witness ==
    /\ RetrainEnded({"success"})
    /\ model.cluster_label_map.m = <<3, 1, 2>>
    /\ Cardinality(Batch) = 4

(***************************************************************************)
(* Properties of identify_sessions.                                        *)
(***************************************************************************)
RECURSIVE Flatten(_)
Flatten(ss) == IF ss = <<>> THEN <<>> ELSE Head(ss) \o Flatten(Tail(ss))

Parseable(events) ==
    {i \in 1..Len(events) : parse_flexible_isoformat(events[i].created_at) # <<>>}

SegReturned == fn_pc = "identify_sessions:ret"

\* C8: identify_sessions partitions its input: the events of the returned
\* sessions are exactly the input events with a parseable timestamp, each
\* once; every session is non-empty; the events are in ascending time order
\* inside every session and from one session to the next; and the first
\* event of a session is more than max_gap_minutes after the last event of
\* the session before it.
C8_Partition ==
    SegReturned =>
        LET flat == Flatten(fn_out)
        IN  /\ {flat[k].id : k \in 1..Len(flat)} = Parseable(fn_in)
            /\ Len(flat) = Cardinality(Parseable(fn_in))
            /\ \A k \in 1..Len(flat) :
                  /\ flat[k].created_at = fn_in[flat[k].id].created_at
                  /\ flat[k].error_snapshot = fn_in[flat[k].id].error_snapshot
                  /\ <<flat[k].parsed_time>> = parse_flexible_isoformat(flat[k].created_at)
            /\ \A s \in 1..Len(fn_out) : Len(fn_out[s]) >= 1
            /\ \A k \in 1..(Len(flat) - 1) : flat[k].parsed_time <= flat[k + 1].parsed_time
            /\ \A s \in 1..(Len(fn_out) - 1) :
                  fn_out[s + 1][1].parsed_time - fn_out[s][Len(fn_out[s])].parsed_time
                      > max_gap_minutes

\* an unsorted input with an unparseable event, split into two sessions
C8_Witness ==
    /\ SegReturned
    /\ Len(fn_in) = 3
    /\ Cardinality(Parseable(fn_in)) = 2
    /\ Len(fn_out) = 2
    /\ fn_out[1][1].id > fn_out[2][1].id

GapsOver(sorted, max_gap) ==
    Cardinality({k \in 1..(Len(sorted) - 1) :
                    sorted[k + 1].parsed_time - sorted[k].parsed_time > max_gap})

\* C9: sessions are maximal runs: inside a session consecutive events are at
\* most max_gap_minutes apart (a gap of exactly 30 does not split), and the
\* number of sessions is 1 plus the number of consecutive gaps over 30 among
\* the sorted parseable events (no session when there is no parseable event).
C9_MaximalRuns ==
    SegReturned =>
        LET sorted == SortByTime(ParseEvents(fn_in))
        IN  /\ \A s \in 1..Len(fn_out) : \A k \in 1..(Len(fn_out[s]) - 1) :
                  fn_out[s][k + 1].parsed_time - fn_out[s][k].parsed_time <= max_gap_minutes
            /\ Len(fn_out) = IF sorted = <<>> THEN 0
                             ELSE 1 + GapsOver(sorted, max_gap_minutes)

\* a gap of exactly 30 inside a session, and a gap of 31 between two sessions
C9_Witness ==
    /\ SegReturned
    /\ Len(fn_out) = 2
    /\ Len(fn_out[1]) = 2
    /\ fn_out[1][2].parsed_time - fn_out[1][1].parsed_time = max_gap_minutes
    /\ fn_out[2][1].parsed_time - fn_out[1][2].parsed_time = max_gap_minutes + 1

\* predict_performance has returned to the request at hand
Predicted == cl.performance # None

\* C16: predict_performance on a model that is loaded (no component None) but
\* whose scaler or kmeans was never fitted returns (MEDIUM, 2) whatever the
\* score; so it does on the model load_model builds without a valid artifact.
C16_UnfitAnswersDefault ==
    (/\ Predicted
     /\ ~AnyNone(cl.used)
     /\ cl.used.scaler.st # "fit" \/ cl.used.kmeans.st # "fit")
        => cl.performance = "MEDIUM" /\ cl.cluster_label = 2

\* the model built by load_model without an artifact, asked about the score
\* 1.0
C16_Witness ==
    /\ Predicted
    /\ cl.used = DefaultModel
    /\ ~model_file.exists
    /\ cl.average_eq = RatOne
    /\ cl.performance = "MEDIUM"
    /\ cl.cluster_label = 2

\* C17: the request is answered "Model not available" only if components
\* were missing, load_model was called and components are missing after it;
\* never for a loaded model that is not fitted; and a request that found the
\* in-memory model missing is not answered with the default classification of
\* a model that is not fitted.
C17_ModelUnavailable ==
    /\ cl.response = "model_unavailable" => cl.missing /\ AnyNone(model) /\ ~Predicted
    /\ (Predicted /\ cl.missing) => Fitted(cl.used)

(***************************************************************************)
(* Properties of calculate_session_eq.                                     *)
(***************************************************************************)
EQReturned == fn_pc = "calculate_session_eq:ret"

Identical(events, i) ==
    /\ events[i - 1].error_snapshot.kind = "str"
    /\ events[i - 1].error_snapshot = events[i].error_snapshot

IncludedPairs(events) == {i \in 2..Len(events) : ~Identical(events, i)}

\* the penalty of an included pair, by the types of its two events
PairPenalty(events, i) ==
    LET a == parse_error_type(events[i - 1].error_snapshot)
        b == parse_error_type(events[i].error_snapshot)
    IN  IF a = None \/ b = None THEN 0 ELSE IF a = b THEN 11 ELSE 8

RECURSIVE SumOver(_, _, _)
SumOver(S, events, acc) ==
    IF S = {} THEN acc
    ELSE LET i == CHOOSE x \in S : TRUE
         IN  SumOver(S \ {i}, events, acc + PairPenalty(events, i))

\* C10: a consecutive pair with identical raw messages is excluded: the
\* session score is the sum of the penalties of the other pairs divided by 11
\* times the number of the other pairs only, and 0.0 when every pair is
\* excluded; so two identical messages score 0.0, and [A, A, B] with A, B
\* different messages of one type scores 1.0.
C10_IdenticalPairsExcluded ==
    (EQReturned /\ Len(fn_in) >= 2) =>
        LET inc == IncludedPairs(fn_in)
        IN  fn_out.score = IF inc = {} THEN RatZero
                           ELSE Rat(SumOver(inc, fn_in, 0), 11 * Cardinality(inc))

\* the session [A, A, B], A and B different messages of the same type: 1.0
C10_Witness ==
    /\ EQReturned
    /\ Len(fn_in) = 3
    /\ Identical(fn_in, 2)
    /\ ~Identical(fn_in, 3)
    /\ parse_error_type(fn_in[2].error_snapshot) = "error_cannot_find_symbol"
    /\ parse_error_type(fn_in[3].error_snapshot) = "error_cannot_find_symbol"
    /\ fn_out.score = RatOne

\* the score of the pair (i - 1, i), by the types of its two events
PairScore(events, i) ==
    LET a == parse_error_type(events[i - 1].error_snapshot)
        b == parse_error_type(events[i].error_snapshot)
    IN  IF a = None \/ b = None THEN RatZero
        ELSE IF a = b THEN RatOne
        ELSE Rat(8, 11)

RECURSIVE SumScores(_, _)
SumScores(S, events) ==
    IF S = {} THEN RatZero
    ELSE LET i == CHOOSE x \in S : TRUE
         IN  RatAdd(PairScore(events, i), SumScores(S \ {i}, events))

\* C11: an included pair scores 1.0 when both events classify to the same
\* type, 8/11 when they classify to different types and 0 when either event
\* does not classify; the session score is the arithmetic mean of the scores
\* of the included pairs (for a session of two events: the score of its pair).
C11_PairScoresAndMean ==
    (EQReturned /\ IncludedPairs(fn_in) # {}) =>
        LET inc == IncludedPairs(fn_in)
        IN  /\ fn_out.score = RatDivInt(SumScores(inc, fn_in), Cardinality(inc))
            /\ Len(fn_in) = 2 => fn_out.score = PairScore(fn_in, 2)

\* three events, a same-type pair and a different-type pair: (1 + 8/11) / 2
C11_Witness ==
    /\ EQReturned
    /\ Len(fn_in) = 3
    /\ IncludedPairs(fn_in) = {2, 3}
    /\ PairScore(fn_in, 2) = RatOne
    /\ PairScore(fn_in, 3) = Rat(8, 11)
    /\ fn_out.score = Rat(19, 22)

\* does the message match the pattern of the counted type k
MatchesType(msg, k) ==
    /\ msg.kind = "str"
    /\ \E i \in 1..Len(COUNTED_ERROR_TYPES) :
          /\ COUNTED_ERROR_TYPES[i][1] = k
          /\ re_search(COUNTED_ERROR_TYPES[i][2], Lower(msg.toks))

\* C13: a session of fewer than 2 events scores 0.0; the event of a
\* one-event session is counted in the counted-type map (1 for every type
\* whose pattern its message matches), and the map of a session of no event
\* is 0 for all 6 types.
C13_ShortSessions ==
    (EQReturned /\ Len(fn_in) < 2) =>
        /\ fn_out.score = RatZero
        /\ DOMAIN fn_out.counts = CountedKeys
        /\ Cardinality(CountedKeys) = 6
        /\ Len(fn_in) = 0 => \A k \in CountedKeys : fn_out.counts[k] = 0
        /\ Len(fn_in) = 1 =>
               \A k \in CountedKeys :
                   fn_out.counts[k] = IF MatchesType(fn_in[1].error_snapshot, k) THEN 1 ELSE 0

\* a session of one cannot-find-symbol event: score 0.0, that type counted once
C13_Witness ==
    /\ EQReturned
    /\ Len(fn_in) = 1
    /\ fn_out.score = RatZero
    /\ fn_out.counts["error_cannot_find_symbol"] = 1
    /\ \A k \in CountedKeys \ {"error_cannot_find_symbol"} : fn_out.counts[k] = 0

\* C14 as stated: the session score is 0 for every session with zero or
\* exactly one scored (included) pair.
C14_ZeroBelowTwoPairs ==
    (EQReturned /\ Cardinality(IncludedPairs(fn_in)) < 2) => fn_out.score = RatZero

\* C14: the session score is 0 for every session with no scored (included)
\* pair: fewer than two events, or every consecutive pair identical.
C14_ZeroWithoutPairs ==
    (EQReturned /\ IncludedPairs(fn_in) = {}) => fn_out.score = RatZero

\* three times the same cannot-find-symbol message: both pairs excluded, 0.0
C14_Witness ==
    /\ EQReturned
    /\ Len(fn_in) = 3
    /\ IncludedPairs(fn_in) = {}
    /\ parse_error_type(fn_in[1].error_snapshot) = "error_cannot_find_symbol"
    /\ fn_out.score = RatZero

\* C15: the counted-type map counts events, not pairs: for each of the 6
\* types its count is the number of events of the session whose message
\* matches the type's pattern, whether or not the event's pairs were excluded
\* and whether or not the event classified for scoring.
C15_CountsPerEvent ==
    EQReturned =>
        \A k \in CountedKeys :
            fn_out.counts[k] =
                Cardinality({i \in 1..Len(fn_in) : MatchesType(fn_in[i].error_snapshot, k)})

\* twice the same message, then one matching two patterns: the first pair is
\* excluded, and the counts are 3 and 1
C15_Witness ==
    /\ EQReturned
    /\ Len(fn_in) = 3
    /\ Identical(fn_in, 2)
    /\ ~Identical(fn_in, 3)
    /\ fn_out.counts["error_cannot_find_symbol"] = 3
    /\ fn_out.counts["error_semicolon_expected"] = 1

(***************************************************************************)
(* Properties of parse_error_details.                                      *)
(***************************************************************************)
ParseReturned == fn_pc = "parse_error_details:ret"

\* the i-th pattern of the table is found in the lower-cased message
Matches(i, msg) == re_search(patterns[i][2], Lower(msg.toks))

\* the message with the line number taken out of every "file:line: error:"
Unnumbered(msg) ==
    [msg EXCEPT !.toks = [i \in 1..Len(msg.toks) |->
                             IF msg.toks[i] = "Main.java:5: error:" THEN "Main.java: error:"
                             ELSE msg.toks[i]]]

\* C27: parse_error_details returns the category of the first entry of
\* `patterns`, in table order, whose pattern is found in the lower-cased
\* message, and no type when none is found or the message is empty, blank
\* or not a string; the message without its line number gets the same type.
C27_FirstMatchInTableOrder ==
    ParseReturned =>
        /\ (fn_in.kind # "str" \/ IsBlank(fn_in.toks)) => fn_out.error_type = None
        /\ (fn_in.kind = "str" /\ ~IsBlank(fn_in.toks)) =>
              /\ (\A i \in 1..Len(patterns) : ~Matches(i, fn_in)) => fn_out.error_type = None
              /\ \A i \in 1..Len(patterns) :
                    (Matches(i, fn_in) /\ \A j \in 1..(i - 1) : ~Matches(j, fn_in))
                       => fn_out.error_type = patterns[i][1]
        /\ fn_out.error_type = parse_error_details(Unnumbered(fn_in)).error_type

\* a numbered message in which the constructor pattern (4th) and the method
\* application pattern (14th) are both found: the earlier entry is returned
C27_Witness ==
    /\ ParseReturned
    /\ fn_out.error_line = <<5>>
    /\ Matches(4, fn_in)
    /\ Matches(14, fn_in)
    /\ fn_out.error_type = "error_constructor"

(***************************************************************************)
(* Properties of process_user_eq.                                          *)
(***************************************************************************)
UserReturned == fn_pc = "process_user_eq:ret"

InUnitInterval(q) == RatLeq(RatZero, q) /\ RatLeq(q, RatOne)

\* C12: every session_eq_score is in [0, 1], and so is the average_eq_score
\* process_user_eq returns; it is never negative.
C12_ScoresInUnitInterval ==
    (UserReturned /\ fn_out.ok) =>
        /\ \A i \in 1..Len(fn_out.history_records) :
               InUnitInterval(fn_out.history_records[i].session_eq_score)
        /\ InUnitInterval(fn_out.average_eq)
        /\ fn_out.average_eq.n >= 0 /\ fn_out.average_eq.d > 0

\* two sessions, one scoring 1.0 on its two same-type events and one of a
\* single event scoring 0.0: the average is 1/2
C12_Witness ==
    /\ UserReturned
    /\ fn_out.ok
    /\ Len(fn_out.history_records) = 2
    /\ fn_out.history_records[1].session_eq_score = RatOne
    /\ fn_out.history_records[2].session_eq_score = RatZero
    /\ fn_out.average_eq = Rat(1, 2)

\* the fetched events are two, at T and T + 5 minutes, each with a message
\* of the shape "...: error: cannot find symbol..."
TwoCannotFindSymbol ==
    /\ Len(fn_in) = 2
    /\ fn_in[1].created_at = TS("utc", 0)
    /\ fn_in[2].created_at = TS("utc", 5)
    /\ \A i \in 1..2 : /\ fn_in[i].error_snapshot.kind = "str"
                       /\ Head(fn_in[i].error_snapshot.toks) = "Main.java:5: error:"
                       /\ parse_error_type(fn_in[i].error_snapshot) = "error_cannot_find_symbol"

\* one session of both events, with the given score
OneSessionScoring(q) ==
    /\ fn_out.ok
    /\ Len(fn_out.history_records) = 1
    /\ fn_out.history_records[1].session_compilations = 2
    /\ fn_out.history_records[1].session_eq_score = q
    /\ fn_out.average_eq = q

\* C28, as stated: two events at T and T + 5 min, both with a message
\* "...: error: cannot find symbol...", give one session scoring 1.0.
C28_SameTypePairScoresOne ==
    (UserReturned /\ TwoCannotFindSymbol) => OneSessionScoring(RatOne)

\* C28: two events at T and T + 5 min with two cannot-find-symbol messages
\* that are not the same string give one session with one pair of one type,
\* scoring 1.0; with the same string twice the pair is left out and the
\* session scores 0.0.
C28_DistinctSameTypePairScoresOne ==
    (UserReturned /\ TwoCannotFindSymbol) =>
        IF fn_in[1].error_snapshot # fn_in[2].error_snapshot
        THEN OneSessionScoring(RatOne)
        ELSE OneSessionScoring(RatZero)

C28_Witness ==
    /\ UserReturned
    /\ TwoCannotFindSymbol
    /\ fn_in[1].error_snapshot # fn_in[2].error_snapshot
    /\ OneSessionScoring(RatOne)

(***************************************************************************)
(* Properties of the /classify request and of retrain_model's writes.      *)
(***************************************************************************)
\* the step of the request at hand in which process_user_eq fetches the
\* user's events and computes
FetchStep == cl.pc = "fetch" /\ cl' # cl

\* process_user_eq has returned None to the request at hand
ReturnedNone == cl.pc = "done" /\ cl.response = "error" /\ ~Predicted

\* C18: process_user_eq returns None, raising nothing, when the user has no
\* event or no event with a parseable timestamp (so no session), and whenever
\* it returns None from its computation the store is as it was: no history
\* record deleted or inserted, no profile upserted.
C18_NoneLeavesStore ==
    [][FetchStep =>
          /\ Parseable(WithIds(feedback[cl.user_id])) = {} => ReturnedNone'
          /\ ReturnedNone' => UNCHANGED storeVars]_vars

\* u4, whose only stored event has a timestamp that does not parse (the
\* request's own event was not saved): None, and no profile and no history
C18_Witness ==
    /\ ReturnedNone
    /\ cl.user_id = "u4"
    /\ Len(feedback["u4"]) = 1
    /\ parse_flexible_isoformat(feedback["u4"][1].created_at) = <<>>
    /\ ~eq_metrics["u4"].present
    /\ \A r \in eq_metrics_history : r.user_id # "u4"

\* a step of process_user_eq, for the request at hand, in which a call to the
\* store fails
FaultInProcessUserEq ==
    /\ cl.pc \in {"fetch", "delete", "insert", "upsert"}
    /\ cl' # cl
    /\ budget'.faults < budget.faults

\* C19: a store fault in the fetch, the delete of the history, the insert of
\* the history or the upsert of the profile makes process_user_eq return None.
C19_StoreFaultReturnsNone ==
    [][FaultInProcessUserEq => ReturnedNone']_vars

\* the profile of u and every history record of u carry the labels the last
\* retrain_model run computed for u
Reconciled(u) ==
    /\ eq_metrics[u].cluster = rt.user_final_state[u].ClusterLabel
    /\ eq_metrics[u].performance = rt.user_final_state[u].Performance
    /\ HistoryMatchesProfile(eq_metrics_history, eq_metrics, u)

\* C20: a store fault during retrain_model's reconciliation that affects one
\* user's update leaves every other user of the batch reconciled: after a run
\* that fitted and saved its model, ran alone and met a fault in its update
\* of the profiles or of the history, at most one user of the batch is
\* without the new labels in profile or history.
C20_OthersReconciled ==
    (RetrainEnded({"success"}) /\ rt.alone /\ rt.failed \in {"update_metrics", "update_history"})
        => Cardinality({u \in Batch : ~Reconciled(u)}) <= 1

\* no call to the store has failed so far
NoFaultSoFar == budget.faults = MaxFaults

\* the history records of user u
RecordsOf(u) == {r \in eq_metrics_history : r.user_id = u}

\* the sessions of u's stored events
SessionsOf(u) == identify_sessions(WithIds(feedback[u]), max_gap_minutes)

\* C21: in a process_user_eq run without a fault the user's old history
\* records are deleted before the new ones are inserted (no record of the
\* user is left after the delete), and after the insert the user's history
\* holds exactly one record per session of the user's current events, all of
\* them new, each with the event count, the start and the end of its session.
C21_HistoryRecreated ==
    /\ (cl.pc = "insert" /\ NoFaultSoFar) => RecordsOf(cl.user_id) = {}
    /\ (cl.pc = "upsert" /\ NoFaultSoFar) =>
          LET sessions == SessionsOf(cl.user_id)
              first_id == next_id - Len(sessions)
          IN  /\ Cardinality(RecordsOf(cl.user_id)) = Len(sessions)
              /\ \A i \in 1..Len(sessions) :
                    \E r \in RecordsOf(cl.user_id) :
                       /\ r.id = first_id + i - 1
                       /\ r.session_compilations = Len(sessions[i])
                       /\ r.session_start_time = sessions[i][1].parsed_time
                       /\ r.session_end_time = sessions[i][Len(sessions[i])].parsed_time

\* u3, whose one record (id 3) gives way to the records of two sessions
C21_Witness ==
    /\ cl.pc = "upsert"
    /\ NoFaultSoFar
    /\ cl.user_id = "u3"
    /\ Len(SessionsOf("u3")) = 2
    /\ {r.id : r \in RecordsOf("u3")} = {4, 5}
    /\ \E r \in RecordsOf("u3") : r.session_compilations = 2
    /\ \E r \in RecordsOf("u3") : r.session_compilations = 1

\* the upsert of process_user_eq's metrics_data, answered by the store
MetricsUpsertStep ==
    /\ cl.pc = "upsert"
    /\ cl'.pc = "predict"
    /\ budget'.faults = budget.faults

RECURSIVE TotalOfType(_, _)
TotalOfType(sessions, k) ==
    IF sessions = <<>> THEN 0
    ELSE calculate_session_eq(Head(sessions)).counts[k] + TotalOfType(Tail(sessions), k)

\* C26: the row process_user_eq upserts has average_eq_score the sum of the
\* scores of all the user's sessions (those of one event, scoring 0.0,
\* among them) divided by their number, total_sessions_analyzed that
\* number, and for each of the 6 counted types the sum of the sessions'
\* counts; the value returned to /classify is the stored average.
C26_ProfileOfSessions ==
    [][MetricsUpsertStep =>
          \E sessions \in {SessionsOf(cl.user_id)} :
             \E scores \in {[i \in 1..Len(sessions) |-> calculate_session_eq(sessions[i]).score]} :
                \E row \in {eq_metrics'[cl.user_id]} :
                   /\ row.present
                   /\ row.average_eq_score = <<RatDivInt(RatSum(scores), Len(sessions))>>
                   /\ row.total_sessions_analyzed = Len(sessions)
                   /\ \A k \in CountedKeys : row.counts[k] = TotalOfType(sessions, k)
                   /\ <<cl'.average_eq>> = row.average_eq_score]_vars

\* u3 after its request: a session of two events scoring 8/11 and one of a
\* single event scoring 0.0; the profile holds 4/11 over 2 sessions
C26_Witness ==
    /\ cl.pc = "predict"
    /\ cl.user_id = "u3"
    /\ NoFaultSoFar
    /\ Len(SessionsOf("u3")) = 2
    /\ Len(SessionsOf("u3")[2]) = 1
    /\ eq_metrics["u3"].average_eq_score = <<Rat(4, 11)>>
    /\ eq_metrics["u3"].total_sessions_analyzed = 2
    /\ cl.average_eq = Rat(4, 11)

\* the user's stored events are two, 40 minutes apart
TwoEventsFortyApart(u) ==
    /\ Len(feedback[u]) = 2
    /\ \A i \in 1..2 : parse_flexible_isoformat(feedback[u][i].created_at) # <<>>
    /\ parse_flexible_isoformat(feedback[u][2].created_at)[1]
          - parse_flexible_isoformat(feedback[u][1].created_at)[1] = 40

\* the request has passed process_user_eq's fetch of such a user's events,
\* and no call has failed
PastFetchOfTwo ==
    /\ cl.pc \notin {"idle", "fetch"}
    /\ NoFaultSoFar
    /\ TwoEventsFortyApart(cl.user_id)

\* C29: two events at T and T + 40 min are two sessions of one event each,
\* both scoring 0.0; process_user_eq stores two history records and returns
\* the average 0.0, and /classify does not answer with the error of a
\* missing average: it goes on to predict_performance.
C29_TwoSessionsThenPrediction ==
    PastFetchOfTwo =>
        /\ Len(SessionsOf(cl.user_id)) = 2
        /\ \A i \in 1..2 :
              /\ Len(SessionsOf(cl.user_id)[i]) = 1
              /\ calculate_session_eq(SessionsOf(cl.user_id)[i]).score = RatZero
        /\ cl.average_eq = RatZero
        /\ cl.pc \notin {"delete", "insert"} =>
              /\ Cardinality(RecordsOf(cl.user_id)) = 2
              /\ \A r \in RecordsOf(cl.user_id) :
                    r.session_eq_score = <<RatZero>> /\ r.session_compilations = 1
        /\ cl.pc = "done" => cl.response # "error" /\ Predicted

\* u4's request, answered with a prediction
C29_Witness ==
    /\ cl.pc = "done"
    /\ cl.response = "ok"
    /\ PastFetchOfTwo
    /\ Predicted
    /\ eq_metrics[cl.user_id].average_eq_score = <<RatZero>>
    /\ eq_metrics[cl.user_id].total_sessions_analyzed = 2

(***************************************************************************)
(* Properties of interleaved process_user_eq runs.                         *)
(***************************************************************************)
\* the orders in which the users can be processed one after another
UserOrders ==
    {o \in [1..Cardinality(Users) -> Users] : \A i, j \in DOMAIN o : o[i] = o[j] => i = j}

\* the user whose run takes the step
Stepper(u) == fn_pc'[u] # fn_pc[u]

\* C22: a process_user_eq run for u changes no feedback event and no profile
\* or history record of another user; so when runs for different users,
\* interleaved in any way and without a fault, have all ended, the store is
\* what processing the users one after another, in some order, leaves.
C22_OwnRecordsOnly ==
    [][/\ \A u \in Users :
             Stepper(u) =>
                /\ feedback' = feedback
                /\ \A v \in Users \ {u} :
                      /\ eq_metrics'[v] = eq_metrics[v]
                      /\ RecordsOf(v)' = RecordsOf(v)
       /\ ((\A u \in Users : fn_pc'[u] = "done") /\ NoFaultSoFar') =>
             \E o \in UserOrders :
                \E st \in {HistoricalRun(feedback', o, fn_out)} :
                   /\ eq_metrics' = st.eq_metrics
                   /\ eq_metrics_history' = st.eq_metrics_history
                   /\ next_id' = st.next_id]_vars

\* all runs have ended without a fault; the ids tell that u2's insert came
\* first, then u3's, then u1's
C22_Witness ==
    /\ \A u \in Users : fn_pc[u] = "done"
    /\ NoFaultSoFar
    /\ eq_metrics["u1"].average_eq_score = <<RatOne>>
    /\ eq_metrics["u3"].total_sessions_analyzed = 2
    /\ \E r1 \in RecordsOf("u1"), r3 \in RecordsOf("u3") : r3.id < r1.id
    /\ \E r2 \in RecordsOf("u2"), r3 \in RecordsOf("u3") : r2.id < r3.id

(***************************************************************************)
(* Properties of retrain_model runs side by side.                          *)
(***************************************************************************)
\* a retrain_model run of the service's scheduler is under way
JobInFlight == rt.pc \notin {"idle", "done"}

\* a retrain_model run of run_initial_training.py is under way
ScriptInFlight == fn_pc \notin {"script:idle", "script:done"}

\* C23: at most one retrain_model execution is in flight at any time, the
\* scheduled job and the script's run included.
C23_OneRetrainInFlight == ~(JobInFlight /\ ScriptInFlight)

(***************************************************************************)
(* Properties of retrain_model invoked repeatedly.                         *)
(***************************************************************************)
\* the maps of a model, by cluster: centre, performance, label (the index a
\* fit gives a cluster is the fit's own numbering)
MapsOf(m) == {<<m.kmeans.centers[i], m.perf_map.m[i], m.cluster_label_map.m[i]>> : i \in 1..3}

\* the run under way or just ended is a second one, the first one went
\* through to the metadata, and no call has failed so far
SecondOfTwo ==
    /\ rt.n = 2
    /\ rt.before.model_metadata = 1
    /\ rt.before.model_file.exists
    /\ NoFaultSoFar

Assigned(metrics) == ValidRows(metrics, {u \in Users : metrics[u].present})

\* the step is the history upsert of retrain_model or of run_history_update
ReconcilingStep ==
    \/ rt.pc = "update_history" /\ rt'.pc # rt.pc
    \/ fn_pc = "history:update" /\ fn_pc' # fn_pc

\* C25: a history record of a user who is not among the users with a current
\* assignment is treated alike by the reconciliation of retrain_model and by
\* that of run_history_update: both leave it as it is (retrain_model never
\* clears).
C25_AbsentTreatedAlike ==
    [][ReconcilingStep =>
          \A r \in eq_metrics_history :
              r.user_id \notin Assigned(eq_metrics) => r \in eq_metrics_history']_vars

\* the part of retrain_model: its history upsert leaves such a record alone
RetrainLeavesAbsent ==
    [][rt.pc = "update_history" /\ rt'.pc # rt.pc =>
          \A r \in eq_metrics_history :
              r.user_id \notin Assigned(eq_metrics) => r \in eq_metrics_history']_vars

(***************************************************************************)
(* Properties of retrain_model on the three-user scenario.                 *)
(***************************************************************************)
\* the rows of eq_metrics are those of three users with averages 0.1, 0.5, 0.9
ThreeUsersScenario ==
    /\ {u \in Users : eq_metrics[u].present} = {"u1", "u2", "u3"}
    /\ eq_metrics["u1"].average_eq_score = <<Rat(1, 10)>>
    /\ eq_metrics["u2"].average_eq_score = <<Rat(1, 2)>>
    /\ eq_metrics["u3"].average_eq_score = <<Rat(9, 10)>>
    /\ \A u \in {"u1", "u2", "u3"} : eq_metrics[u].total_sessions_analyzed >= 1

\* the profile and every history record of u carry the labels
Labelled(u, performance, cluster) ==
    /\ eq_metrics[u].performance = performance
    /\ eq_metrics[u].cluster = cluster
    /\ RecordsOf(u) # {}
    /\ \A r \in RecordsOf(u) : r.performance = performance /\ r.cluster = cluster

SuccessStep == cl.pc # "done" /\ cl'.pc = "done" /\ cl'.response = "ok"

\* C31: when /classify returns success for user u with (performance,
\* cluster), u's profile holds that cluster, that performance and the
\* average, and every history record of u holds that cluster and performance.
C31_SuccessMeansLabelled ==
    [][SuccessStep =>
          /\ eq_metrics'[cl'.user_id].cluster = cl'.cluster_label
          /\ eq_metrics'[cl'.user_id].performance = cl'.performance
          /\ eq_metrics'[cl'.user_id].average_eq_score = <<cl'.average_eq>>
          /\ \A r \in eq_metrics_history' :
                r.user_id = cl'.user_id =>
                   r.cluster = cl'.cluster_label /\ r.performance = cl'.performance]_vars

\* the same when no call has failed and no retrain_model has begun
C31_HoldsUndisturbed ==
    [][(SuccessStep /\ NoFaultSoFar' /\ rt.pc = "idle") =>
          /\ eq_metrics'[cl'.user_id].cluster = cl'.cluster_label
          /\ eq_metrics'[cl'.user_id].performance = cl'.performance
          /\ eq_metrics'[cl'.user_id].average_eq_score = <<cl'.average_eq>>
          /\ \A r \in eq_metrics_history' :
                r.user_id = cl'.user_id =>
                   r.cluster = cl'.cluster_label /\ r.performance = cl'.performance]_vars

(***************************************************************************)
(* Properties of retrain_model's history reconciliation.                   *)
(***************************************************************************)
\* retrain_model fetches the history and the store answers
HistoryFetchedStep ==
    /\ rt.pc = "fetch_history"
    /\ rt'.pc # rt.pc
    /\ budget'.faults = budget.faults

\* the record's user was fitted and the record's labels are not the new ones
Differs(r, user_final_state) ==
    /\ r.user_id \in DOMAIN user_final_state
    /\ \/ r.cluster # user_final_state[r.user_id].ClusterLabel
       \/ r.performance # user_final_state[r.user_id].Performance

\* the table after every record of a fitted user is given the new labels
Rewritten(table, user_final_state) ==
    { IF r.user_id \in DOMAIN user_final_state
      THEN [r EXCEPT !.cluster = user_final_state[r.user_id].ClusterLabel,
                     !.performance = user_final_state[r.user_id].Performance]
      ELSE r : r \in table }

\* C32: the updates retrain_model prepares are those of exactly the records
\* of fitted users whose cluster or performance differs from the new
\* assignment, each with the new assignment; applying them leaves the table
\* as rewriting every record of the fitted users would.
C32_ExactlyTheDiffering ==
    [][HistoryFetchedStep =>
          /\ {x.id : x \in rt'.updates_history}
                = {r.id : r \in {y \in eq_metrics_history : Differs(y, rt.user_final_state)}}
          /\ \A x \in rt'.updates_history :
                \E r \in eq_metrics_history :
                   /\ r.id = x.id
                   /\ x.cluster = rt.user_final_state[r.user_id].ClusterLabel
                   /\ x.performance = rt.user_final_state[r.user_id].Performance
          /\ (rt'.pc = "update_history") = (rt'.updates_history # {})
          /\ UpsertHistory(eq_metrics_history, rt'.updates_history)
                = Rewritten(eq_metrics_history, rt.user_final_state)]_vars

\* some records of fitted users are submitted and another one, matching
\* already, is skipped
C32_Witness ==
    /\ rt.pc = "update_history"
    /\ rt.updates_history # {}
    /\ \E r \in eq_metrics_history :
          /\ r.user_id \in DOMAIN rt.user_final_state
          /\ r.cluster # NoCluster
          /\ ~Differs(r, rt.user_final_state)
          /\ r.id \notin {x.id : x \in rt.updates_history}

(***************************************************************************)
(* Properties of /classify without an average.                             *)
(***************************************************************************)
\* process_user_eq's fetch is answered and there is no average to return:
\* the fetch failed, or no stored event of the user has a time that parses
NoAverageStep ==
    /\ cl.pc = "fetch"
    /\ cl' # cl
    /\ \/ budget'.faults < budget.faults
       \/ Parseable(WithIds(feedback[cl.user_id])) = {}

\* C33: when process_user_eq has no valid average for /classify, the request
\* ends there with the internal-error response: no prediction is made,
\* nothing is written to the profile or the history, and the events stored,
\* the one the request saved among them, stay.
C33_NoAverageNoPrediction ==
    [][NoAverageStep =>
          /\ cl'.pc = "done"
          /\ cl'.response = "error"
          /\ cl'.performance = None
          /\ cl'.cluster_label = NoCluster
          /\ eq_metrics' = eq_metrics
          /\ eq_metrics_history' = eq_metrics_history
          /\ feedback' = feedback]_vars

\* u1's request: its event is saved beside the one u1 had, the fetch fails
C33_Witness ==
    /\ cl.pc = "done"
    /\ cl.response = "error"
    /\ cl.user_id = "u1"
    /\ cl.performance = None
    /\ Len(feedback["u1"]) = 2
    /\ feedback["u1"][2].error_snapshot = MsgA2
    /\ budget.faults < MaxFaults


(***************************************************************************)
(* Properties of the pair predict_performance returns.                     *)
(***************************************************************************)

\* the pairs in which the performance and the ordinal label correspond
ConsistentPairs ==
    { [performance |-> "HIGH", cluster_label |-> 1],
      [performance |-> "MEDIUM", cluster_label |-> 2],
      [performance |-> "LOW", cluster_label |-> 3] }

ReturnedPair == [performance |-> cl.performance, cluster_label |-> cl.cluster_label]

\* C34: a prediction made on a model state that load_model and completed runs
\* of retrain_model left behind (no retrain_model in flight when
\* predict_performance ran) is one of (HIGH, 1), (MEDIUM, 2), (LOW, 3).
C34_ConsistentPair ==
    (Predicted /\ cl.during = 0) => ReturnedPair \in ConsistentPairs

C34_Witness ==
    /\ Predicted /\ cl.during = 0
    /\ rt.pc = "done" /\ rt.result = "success"
    /\ cl.used = model /\ Fitted(model)
    /\ ReturnedPair = [performance |-> "LOW", cluster_label |-> 3]


(***************************************************************************)
(* Properties of the model in use and the persisted artifact.              *)
(***************************************************************************)

\* the model predict_performance works with: the globals, after the
\* load_model it calls first when one of them is None
ModelInUse == IF AnyNone(model) THEN load_model(model_file) ELSE model

\* C35: when retrain_model has returned, with any outcome, the model in use
\* by predict_performance is the one in the persisted artifact; after a failed
\* save it is the model the run found.
C35_ModelIsArtifact ==
    (rt.pc = "done" /\ rt.alone /\ model_file.exists)
        => /\ ModelInUse = model_file.content
           /\ rt.result = "save_failed" => ModelInUse = rt.before.model

\* what does hold: a run that ends otherwise than by a failed save leaves the
\* model in use equal to the artifact
C35_HoldsUnlessSaveFailed ==
    (rt.pc = "done" /\ rt.alone /\ model_file.exists /\ rt.result # "save_failed")
        => ModelInUse = model_file.content


(***************************************************************************)
(* Properties of what retrain_model's reconciliation leaves alone.         *)
(***************************************************************************)

\* the step in which update_eq_metrics_history_batch is called
ReconcileStep == rt.pc = "update_history" /\ rt'.pc # rt.pc

\* a record without its labels
Unlabelled(r) == [r EXCEPT !.cluster = NoCluster, !.performance = None]

C36_HoldsAlone ==
    [][(ReconcileStep /\ rt.alone) =>
          { Unlabelled(r) : r \in eq_metrics_history' }
             = { Unlabelled(r) : r \in eq_metrics_history }]_vars


(***************************************************************************)
(* Properties of two process_user_eq runs for the same user.               *)
(***************************************************************************)
BothFinished == \A r \in Runs : fn_pc[r] = "done"

\* C37: when two process_user_eq runs for the same user, interleaved in any
\* way and without a fault, have both ended, the user's history holds one
\* record per session of the user's events and total_sessions_analyzed is
\* the number of the user's history records.
C37_OneRecordPerSession ==
    (BothFinished /\ NoFaultSoFar /\ eq_metrics[fn_out].present)
        => /\ Cardinality(RecordsOf(fn_out)) = Len(SessionsOf(fn_out))
           /\ eq_metrics[fn_out].total_sessions_analyzed = Cardinality(RecordsOf(fn_out))

\* what does hold: the profile's count is the number of the sessions, and
\* every session has at least one record
C37_HoldsForProfile ==
    (BothFinished /\ NoFaultSoFar /\ Len(SessionsOf(fn_out)) > 0)
        => /\ eq_metrics[fn_out].total_sessions_analyzed = Len(SessionsOf(fn_out))
           /\ Cardinality(RecordsOf(fn_out)) >= Len(SessionsOf(fn_out))


(***************************************************************************)
(* Properties of identify_sessions on reordered input.                     *)
(***************************************************************************)
\* the orders of a list of n events
Reorderings(n) == {p \in [1..n -> 1..n] : \A i, j \in 1..n : p[i] = p[j] => i = j}

\* every event has a parseable timestamp and no two show the same instant
DistinctParseable(user_events) ==
    /\ \A i \in DOMAIN user_events :
          parse_flexible_isoformat(user_events[i].created_at) # <<>>
    /\ \A i, j \in DOMAIN user_events :
          parse_flexible_isoformat(user_events[i].created_at)
             = parse_flexible_isoformat(user_events[j].created_at) => i = j

\* C38: for events with pairwise distinct parseable timestamps,
\* identify_sessions returns for every reordering of its input the sessions
\* it returns for the input: the same sessions, the same events, the same
\* order.
C38_OrderIndependent ==
    (SegReturned /\ DistinctParseable(fn_in)) =>
        \A p \in Reorderings(Len(fn_in)) :
           identify_sessions([i \in 1..Len(fn_in) |-> fn_in[p[i]]], max_gap_minutes) = fn_out

\* three events given latest first, in two sessions
C38_Witness ==
    /\ SegReturned
    /\ DistinctParseable(fn_in)
    /\ Len(fn_in) = 3
    /\ Len(fn_out) = 2
    /\ fn_out[1][1].id = 3
    /\ fn_out[2][1].id = 1


(***************************************************************************)
(* Properties of /classify when final_prediction_update meets a fault.     *)
(***************************************************************************)
\* a step of final_prediction_update whose call to the store fails
FinalFaultStep ==
    /\ cl.pc \in {"final_metrics", "final_select", "final_history"}
    /\ cl' # cl
    /\ budget'.faults < budget.faults

\* the request has answered with success and a history record of its user
\* is without the labels it returned
SuccessUnlabelled ==
    /\ cl.pc = "done" /\ cl.response = "ok"
    /\ \E r \in RecordsOf(cl.user_id) :
          r.cluster # cl.cluster_label \/ r.performance # cl.performance

\* C39: when the profile upsert or the history label update of
\* final_prediction_update hits a store fault, /classify does not answer with
\* success while the user's history records are without the returned labels.
C39_FaultMeansNoSuccess == [][FinalFaultStep => ~SuccessUnlabelled']_vars

\* what does hold: a fault of the profile upsert ends the request with the
\* error response
C39_HoldsForProfile ==
    [][(FinalFaultStep /\ cl.pc = "final_metrics") =>
          (cl'.pc = "done" /\ cl'.response = "error")]_vars


(***************************************************************************)
(* Properties of the paginated fetches.                                    *)
(***************************************************************************)
FetchReturned == fn_pc = "fetch:ret" /\ ~fn_out.failed

\* every row of the table is in the records exactly once
EveryRecordOnce ==
    /\ Len(fn_out.records) = Cardinality(fn_in.table)
    /\ {fn_out.records[k] : k \in 1..Len(fn_out.records)} = fn_in.table

\* the pages of a table of n rows: the full ones and one more, short or empty
PagesFor(n) == (n \div PageSize) + 1

\* C40: on an unchanging table the paginated fetches end and return every
\* matching record exactly once, also for no record and for a multiple of
\* the batch size, where one more, empty page is requested.
C40_EveryRecordOnce ==
    /\ fn_out.pages <= PagesFor(Cardinality(fn_in.table))
    /\ FetchReturned =>
          /\ EveryRecordOnce
          /\ fn_out.pages = PagesFor(Cardinality(fn_in.table))

\* the query's order is the same for every page: the rows are ordered by
\* created_at and no two have the same
TotalOrder ==
    /\ fn_in.fetch = "fetch_all_feedback_for_user"
    /\ \A r1, r2 \in fn_in.table : r1.created_at = r2.created_at => r1 = r2

\* what does hold: the loop ends after PagesFor pages, whatever the order of
\* the rows, and gives every record once when the order is total
C40_HoldsInTotalOrder ==
    /\ fn_out.pages <= PagesFor(Cardinality(fn_in.table))
    /\ FetchReturned =>
          /\ fn_out.pages = PagesFor(Cardinality(fn_in.table))
          /\ Len(fn_out.records) = Cardinality(fn_in.table)
          /\ TotalOrder => EveryRecordOnce

=============================================================================
